---- MODULE Spec2Model ----
(***************************************************************************)
(* A model of the Atlan data extractor (src/main.py): the single-tenant    *)
(* run of main(), the payload templating of get_databases, the transport   *)
(* wrapper make_api_request, the left join of create_combined_csv, and the *)
(* multi-tenant orchestrator described in spec.md section 4.5.             *)
(*                                                                         *)
(* Text is modelled as a sequence of one-character strings, so that the    *)
(* serialise / replace / parse round trip of get_databases is computed     *)
(* character by character.  The empty Python string '' is the empty        *)
(* sequence << >> for fields that take part in templating or in the join   *)
(* key, and the TLA+ string "" for every other field.                      *)
(***************************************************************************)
EXTENDS Integers, Sequences, FiniteSets, TLC

----------------------------------------------------------------------------
(* Bounds of the model *)

\* longest entity list in a connections response
MaxConns == 2
\* longest entity list in a databases response
MaxDbs == 2
\* longest connection list / database list handed to the join on its own
MaxJoinConns == 2
MaxJoinDbs == 3
\* longest tenant list handed to the orchestrator
MaxTenants == 3
\* calls of get_databases made one after the other
MaxCalls == 2
\* header fields and rows begun before a write fails part-way
MaxCells == 2

----------------------------------------------------------------------------
(* Generic helpers *)

\* all sequences over S of length at most n
SeqsUpTo(S, n) == UNION {[1..k -> S] : k \in 0..n}

\* Python dict.get(k, default) on a TLA+ record/function standing for a dict
Get(d, k, default) == IF k \in DOMAIN d THEN d[k] ELSE default

\* s[i] or the end-of-text marker
CharAt(s, i) == IF i >= 1 /\ i <= Len(s) THEN s[i] ELSE "EOF"

\* does s contain sub at position i (1-based)?
MatchesAt(s, sub, i) ==
  /\ i + Len(sub) - 1 <= Len(s)
  /\ \A k \in 1..Len(sub) : s[i + k - 1] = sub[k]

\* Python's `sub in s`
Contains(s, sub) == \E i \in 1..(Len(s) + 1) : MatchesAt(s, sub, i)

\* number of non-overlapping occurrences, scanning left to right (str.count)
RECURSIVE CountFrom(_, _, _)
CountFrom(s, sub, i) ==
  IF i > Len(s) THEN 0
  ELSE IF MatchesAt(s, sub, i) THEN 1 + CountFrom(s, sub, i + Len(sub))
  ELSE CountFrom(s, sub, i + 1)

\* Python's str.replace(old, new) for a non-empty old: every non-overlapping
\* occurrence, left to right; the inserted text is not scanned again
RECURSIVE ReplaceFrom(_, _, _, _)
ReplaceFrom(s, old, new, i) ==
  IF i > Len(s) THEN << >>
  ELSE IF MatchesAt(s, old, i) THEN new \o ReplaceFrom(s, old, new, i + Len(old))
  ELSE <<s[i]>> \o ReplaceFrom(s, old, new, i + 1)

StrReplace(s, old, new) == ReplaceFrom(s, old, new, 1)

----------------------------------------------------------------------------
(* JSON values, json.dumps and json.loads                                  *)
(*                                                                         *)
(* A JSON value is [t |-> "str", s |-> chars], [t |-> "int", s |-> digits],*)
(* [t |-> "arr", items |-> <<values>>] or [t |-> "obj", kv |-> <<pairs>>]  *)
(* with a pair [k |-> chars, v |-> value]; Python dicts keep insertion     *)
(* order, so an object is a sequence of pairs with distinct keys.          *)
(* Control characters are the strings "\n", "\t", "\r", "BS" and "FF".     *)
(* The literals true/false/null/NaN, negative and fractional numbers and   *)
(* \uXXXX escapes are outside the alphabet of the modelled inputs: the     *)
(* parser rejects them.                                                    *)

JStr(s) == [t |-> "str", s |-> s]
JInt(s) == [t |-> "int", s |-> s]
JArr(items) == [t |-> "arr", items |-> items]
JObj(kv) == [t |-> "obj", kv |-> kv]
KV(k, v) == [k |-> k, v |-> v]
\* a Python object json has no encoding for (a set, a datetime, ...)
JOther == [t |-> "other"]

Digits == {"0", "1", "2", "3", "4", "5", "6", "7", "8", "9"}
Whitespace == {" ", "\n", "\t", "\r"}
ControlChars == {"\n", "\t", "\r", "BS", "FF"}

\* json.encoder: the escape of one character inside a string literal
EscapeChar(c) ==
  CASE c = "\"" -> <<"\\", "\"">>
    [] c = "\\" -> <<"\\", "\\">>
    [] c = "\n" -> <<"\\", "n">>
    [] c = "\t" -> <<"\\", "t">>
    [] c = "\r" -> <<"\\", "r">>
    [] c = "BS" -> <<"\\", "b">>
    [] c = "FF" -> <<"\\", "f">>
    [] OTHER -> <<c>>

RECURSIVE EscapeStr(_)
EscapeStr(s) == IF s = << >> THEN << >> ELSE EscapeChar(Head(s)) \o EscapeStr(Tail(s))

QuoteStr(s) == <<"\"">> \o EscapeStr(s) \o <<"\"">>

\* json.dumps with the default separators (", " and ": ")
RECURSIVE Dumps(_), DumpItems(_), DumpPairs(_)
Dumps(v) ==
  CASE v.t = "str" -> QuoteStr(v.s)
    [] v.t = "int" -> v.s
    [] v.t = "arr" -> <<"[">> \o DumpItems(v.items) \o <<"]">>
    [] v.t = "obj" -> <<"{">> \o DumpPairs(v.kv) \o <<"}">>

DumpItems(items) ==
  IF items = << >> THEN << >>
  ELSE IF Len(items) = 1 THEN Dumps(items[1])
  ELSE Dumps(items[1]) \o <<",", " ">> \o DumpItems(Tail(items))

DumpPairs(kv) ==
  IF kv = << >> THEN << >>
  ELSE IF Len(kv) = 1 THEN QuoteStr(kv[1].k) \o <<":", " ">> \o Dumps(kv[1].v)
  ELSE QuoteStr(kv[1].k) \o <<":", " ">> \o Dumps(kv[1].v) \o <<",", " ">>
       \o DumpPairs(Tail(kv))

\* json.dumps raises TypeError ("Object of type ... is not JSON
\* serializable") when the value holds an object it cannot encode
RECURSIVE Serializable(_)
Serializable(v) ==
  CASE v.t = "arr" -> \A n \in DOMAIN v.items : Serializable(v.items[n])
    [] v.t = "obj" -> \A n \in DOMAIN v.kv : Serializable(v.kv[n].v)
    [] v.t = "other" -> FALSE
    [] OTHER -> TRUE

\* results of the parsing functions: a failure, or a value and the position
\* after it
PFail == [ok |-> FALSE]
POk(v, next) == [ok |-> TRUE, v |-> v, next |-> next]

RECURSIVE SkipWs(_, _)
SkipWs(txt, i) == IF CharAt(txt, i) \in Whitespace THEN SkipWs(txt, i + 1) ELSE i

\* json.decoder.py_scanstring (strict): i is the position after the opening
\* quote, acc the characters decoded so far
RECURSIVE ScanString(_, _, _)
ScanString(txt, i, acc) ==
  LET c == CharAt(txt, i) IN
  CASE c = "EOF" -> PFail
    [] c = "\"" -> POk(acc, i + 1)
    [] c \in ControlChars -> PFail
    [] c = "\\" ->
         LET e == CharAt(txt, i + 1) IN
         CASE e = "\"" -> ScanString(txt, i + 2, Append(acc, "\""))
           [] e = "\\" -> ScanString(txt, i + 2, Append(acc, "\\"))
           [] e = "/" -> ScanString(txt, i + 2, Append(acc, "/"))
           [] e = "n" -> ScanString(txt, i + 2, Append(acc, "\n"))
           [] e = "t" -> ScanString(txt, i + 2, Append(acc, "\t"))
           [] e = "r" -> ScanString(txt, i + 2, Append(acc, "\r"))
           [] e = "b" -> ScanString(txt, i + 2, Append(acc, "BS"))
           [] e = "f" -> ScanString(txt, i + 2, Append(acc, "FF"))
           [] OTHER -> PFail
    [] OTHER -> ScanString(txt, i + 1, Append(acc, c))

RECURSIVE ScanDigits(_, _)
ScanDigits(txt, i) == IF CharAt(txt, i) \in Digits THEN ScanDigits(txt, i + 1) ELSE i

\* json.scanner NUMBER_RE restricted to non-negative integers: 0 | [1-9]\d*
ScanInt(txt, i) ==
  IF CharAt(txt, i) = "0" THEN POk(JInt(<<"0">>), i + 1)
  ELSE LET j == ScanDigits(txt, i) IN POk(JInt(SubSeq(txt, i, j - 1)), j)

\* dict[k] = v on a sequence of pairs: a repeated key keeps its first
\* position and takes the last value
SetPair(kv, k, v) ==
  IF \E n \in 1..Len(kv) : kv[n].k = k
  THEN [n \in 1..Len(kv) |-> IF kv[n].k = k THEN KV(k, v) ELSE kv[n]]
  ELSE Append(kv, KV(k, v))

RECURSIVE ScanValue(_, _), ScanMembers(_, _, _), ScanElements(_, _, _)
\* json.scanner.py_make_scanner._scan_once
ScanValue(txt, i) ==
  LET c == CharAt(txt, i) IN
  CASE c = "\"" -> LET r == ScanString(txt, i + 1, << >>) IN
                   IF r.ok THEN POk(JStr(r.v), r.next) ELSE PFail
    [] c = "{" -> LET j == SkipWs(txt, i + 1) IN
                  IF CharAt(txt, j) = "}" THEN POk(JObj(<< >>), j + 1)
                  ELSE ScanMembers(txt, j, << >>)
    [] c = "[" -> LET j == SkipWs(txt, i + 1) IN
                  IF CharAt(txt, j) = "]" THEN POk(JArr(<< >>), j + 1)
                  ELSE ScanElements(txt, j, << >>)
    [] c \in Digits -> ScanInt(txt, i)
    [] OTHER -> PFail

\* json.decoder.JSONObject: i is the position of the next key's opening quote
ScanMembers(txt, i, acc) ==
  IF CharAt(txt, i) # "\"" THEN PFail
  ELSE LET key == ScanString(txt, i + 1, << >>) IN
       IF ~key.ok THEN PFail
       ELSE LET j == SkipWs(txt, key.next) IN
            IF CharAt(txt, j) # ":" THEN PFail
            ELSE LET val == ScanValue(txt, SkipWs(txt, j + 1)) IN
                 IF ~val.ok THEN PFail
                 ELSE LET m == SkipWs(txt, val.next)
                          acc2 == SetPair(acc, key.v, val.v) IN
                      CASE CharAt(txt, m) = "}" -> POk(JObj(acc2), m + 1)
                        [] CharAt(txt, m) = "," -> ScanMembers(txt, SkipWs(txt, m + 1), acc2)
                        [] OTHER -> PFail

\* json.decoder.JSONArray: i is the position of the next element
ScanElements(txt, i, acc) ==
  LET val == ScanValue(txt, i) IN
  IF ~val.ok THEN PFail
  ELSE LET m == SkipWs(txt, val.next)
           acc2 == Append(acc, val.v) IN
       CASE CharAt(txt, m) = "]" -> POk(JArr(acc2), m + 1)
         [] CharAt(txt, m) = "," -> ScanElements(txt, SkipWs(txt, m + 1), acc2)
         [] OTHER -> PFail

\* json.loads: one value surrounded by optional whitespace; anything else
\* raises JSONDecodeError (ok = FALSE)
Loads(txt) ==
  LET r == ScanValue(txt, SkipWs(txt, 1)) IN
  IF ~r.ok THEN PFail
  ELSE IF SkipWs(txt, r.next) # Len(txt) + 1 THEN PFail
  ELSE r

----------------------------------------------------------------------------
(* Configuration and environment (main.py lines 39-61, configs/config.json) *)

\* the reserved token "PLACEHOLDER_TO_BE_REPLACED"
Placeholder ==
  <<"P", "L", "A", "C", "E", "H", "O", "L", "D", "E", "R", "_", "T", "O", "_",
    "B", "E", "_", "R", "E", "P", "L", "A", "C", "E", "D">>

\* {"dsl": {"term": {"cqn": "PLACEHOLDER_TO_BE_REPLACED"}}}
TemplateDatabases ==
  JObj(<<KV(<<"d", "s", "l">>,
            JObj(<<KV(<<"t", "e", "r", "m">>,
                      JObj(<<KV(<<"c", "q", "n">>, JStr(Placeholder))>>))>>))>>)

\* {"must": ["PLACEHOLDER_TO_BE_REPLACED", {"size": 40}]}
TemplateTableau ==
  JObj(<<KV(<<"m", "u", "s", "t">>,
            JArr(<<JStr(Placeholder),
                   JObj(<<KV(<<"s", "i", "z", "e">>, JInt(<<"4", "0">>))>>)>>))>>)

\* {"dsl": {"size": 400}}
PayloadConnections ==
  JObj(<<KV(<<"d", "s", "l">>,
            JObj(<<KV(<<"s", "i", "z", "e">>, JInt(<<"4", "0", "0">>))>>))>>)

\* a configuration with a token, two connectors mapped to two templates
CfgStd ==
  [ auth_token |-> <<"t", "o", "k">>,
    connections_api |-> [url |-> "/api/getConnections", payload |-> PayloadConnections],
    databases_api_map |-> [databricks |-> "databases_api", tableau |-> "tableau_api"],
    databases_api |-> [url |-> "/api/getDatabases", payload |-> TemplateDatabases],
    tableau_api |-> [url |-> "/api/getTableau", payload |-> TemplateTableau] ]

\* the same configuration without the auth_token key
CfgNoToken ==
  [ connections_api |-> [url |-> "/api/getConnections", payload |-> PayloadConnections],
    databases_api_map |-> [databricks |-> "databases_api", tableau |-> "tableau_api"],
    databases_api |-> [url |-> "/api/getDatabases", payload |-> TemplateDatabases],
    tableau_api |-> [url |-> "/api/getTableau", payload |-> TemplateTableau] ]

Configs == {CfgStd, CfgNoToken}

\* a configuration whose token already has the prefix
CfgBearer == [CfgStd EXCEPT !.auth_token = <<"B", "e", "a", "r", "e", "r", " ", "k">>]

\* the configurations get_auth_token is exercised with
AuthConfigs == Configs \cup {CfgBearer}

\* os.getenv('ATLAN_AUTH_TOKEN'): unset (None) and '' are both << >>; the
\* others are env, "bearer x", "BEARER x" and "Bearerx"
EnvTokens ==
  {<< >>, <<"e", "n", "v">>,
   <<"b", "e", "a", "r", "e", "r", " ", "x">>,
   <<"B", "E", "A", "R", "E", "R", " ", "x">>,
   <<"B", "e", "a", "r", "e", "r", "x">>}

\* the runs of main() are explored with ATLAN_AUTH_TOKEN unset
RunEnvTokens == {<< >>}

\* an entry of logs/ or output/ that is there when the script starts: its
\* directory and name, whether its mtime is before the cutoff of line 95 (30
\* days ago), and whether os.remove can delete it (it cannot delete a
\* directory, or a file it has no permission for)
Entry(dir, name, old, removable) ==
  [dir |-> dir, name |-> name, old |-> old, removable |-> removable]

\* the glob patterns of lines 99-102 and 116-123, each as the literal texts
\* its stars separate
log_patterns ==
  {<<<<"a", "t", "l", "a", "n", "_", "e", "x", "t", "r", "a", "c", "t", "o", "r", "_">>, <<".", "l", "o", "g">>>>,
   <<<< >>, <<".", "a", "t", "l", "a", "n", "_", "e", "x", "t", "r", "a", "c", "t", "o", "r", "_">>, <<".", "l", "o", "g">>>>}
output_patterns ==
  {<<<<"c", "o", "n", "n", "e", "c", "t", "i", "o", "n", "s", "_">>, <<".", "c", "s", "v">>>>,
   <<<<"d", "a", "t", "a", "b", "a", "s", "e", "s", "_">>, <<".", "c", "s", "v">>>>,
   <<<<"c", "o", "n", "n", "e", "c", "t", "i", "o", "n", "s", "-", "d", "a", "t", "a", "b", "a", "s", "e", "s", "_">>, <<".", "c", "s", "v">>>>,
   <<<< >>, <<".", "c", "o", "n", "n", "e", "c", "t", "i", "o", "n", "s", "_">>, <<".", "c", "s", "v">>>>,
   <<<< >>, <<".", "d", "a", "t", "a", "b", "a", "s", "e", "s", "_">>, <<".", "c", "s", "v">>>>,
   <<<< >>, <<".", "c", "o", "n", "n", "e", "c", "t", "i", "o", "n", "s", "-", "d", "a", "t", "a", "b", "a", "s", "e", "s", "_">>, <<".", "c", "s", "v">>>>}

\* glob's match of a file name against a pattern of one or two stars: the
\* name starts with the first text and ends with the last, the middle text
\* lies between them, and a leading star takes no name that starts with a dot
GlobMatches(name, parts) ==
  LET first == parts[1]
      last == parts[Len(parts)]
  IN /\ Len(name) >= Len(first) + Len(last)
     /\ MatchesAt(name, first, 1)
     /\ MatchesAt(name, last, Len(name) - Len(last) + 1)
     /\ first = << >> => (name # << >> /\ name[1] # ".")
     /\ Len(parts) = 3 =>
          \E i \in (Len(first) + 1)..(Len(name) - Len(last) - Len(parts[2]) + 1) :
            MatchesAt(name, parts[2], i)

\* the entry is listed by one of the glob calls of lines 105 and 126
Globbed(entry) ==
  \/ entry.dir = "logs" /\ \E parts \in log_patterns : GlobMatches(entry.name, parts)
  \/ entry.dir = "output" /\ \E parts \in output_patterns : GlobMatches(entry.name, parts)

\* lines 107-113 and 128-134: a listed entry older than the cutoff is
\* removed, unless os.remove raises OSError, which is logged
cleanup_old_files(entries) ==
  {e \in entries : ~(Globbed(e) /\ e.old /\ e.removable)}

\* what logs/ and output/ may hold at the start: old files of both log
\* patterns and of an output pattern, a recent output file, an old output
\* entry that cannot be deleted, and old files no pattern lists
OldEntries ==
  {Entry("logs", <<"a", "t", "l", "a", "n", "_", "e", "x", "t", "r", "a", "c", "t", "o", "r", "_", "1", ".", "l", "o", "g">>, TRUE, TRUE),
   Entry("logs", <<"a", "c", "m", "e", ".", "a", "t", "l", "a", "n", "_", "e", "x", "t", "r", "a", "c", "t", "o", "r", "_", "1", ".", "l", "o", "g">>, TRUE, TRUE),
   Entry("output", <<"c", "o", "n", "n", "e", "c", "t", "i", "o", "n", "s", "-", "d", "a", "t", "a", "b", "a", "s", "e", "s", "_", "1", ".", "c", "s", "v">>, TRUE, TRUE),
   Entry("output", <<"c", "o", "n", "n", "e", "c", "t", "i", "o", "n", "s", "_", "2", ".", "c", "s", "v">>, FALSE, TRUE),
   Entry("output", <<"a", "c", "m", "e", ".", "d", "a", "t", "a", "b", "a", "s", "e", "s", "_", "1", ".", "c", "s", "v">>, TRUE, FALSE),
   Entry("output", <<"r", "e", "p", "o", "r", "t", "_", "1", ".", "c", "s", "v">>, TRUE, TRUE),
   Entry("logs", <<"o", "l", "d", ".", "l", "o", "g">>, TRUE, TRUE)}

----------------------------------------------------------------------------
(* get_auth_token (main.py lines 142-172) *)

UpperLetters ==
  <<"A", "B", "C", "D", "E", "F", "G", "H", "I", "J", "K", "L", "M",
    "N", "O", "P", "Q", "R", "S", "T", "U", "V", "W", "X", "Y", "Z">>
LowerLetters ==
  <<"a", "b", "c", "d", "e", "f", "g", "h", "i", "j", "k", "l", "m",
    "n", "o", "p", "q", "r", "s", "t", "u", "v", "w", "x", "y", "z">>

\* str.lower() on one character
LowerChar(c) ==
  IF \E n \in 1..26 : UpperLetters[n] = c
  THEN LowerLetters[CHOOSE n \in 1..26 : UpperLetters[n] = c]
  ELSE c

Lower(s) == [n \in 1..Len(s) |-> LowerChar(s[n])]

StartsWith(s, prefix) == MatchesAt(s, prefix, 1)

BearerPrefix == <<"B", "e", "a", "r", "e", "r", " ">>

\* get_auth_token adding the prefix to every token
get_auth_token_AlwaysPrefix(cfg, envtok) ==
  LET token == IF envtok # << >> THEN envtok ELSE Get(cfg, "auth_token", << >>) IN
  IF token = << >> THEN [exit |-> TRUE, token |-> << >>]
  ELSE [exit |-> FALSE, token |-> BearerPrefix \o token]

\* exit = TRUE is sys.exit(1) (line 167)
get_auth_token(cfg, envtok) ==
  LET token == IF envtok # << >> THEN envtok ELSE Get(cfg, "auth_token", << >>) IN
  IF token = << >> THEN [exit |-> TRUE, token |-> << >>]
  ELSE IF StartsWith(Lower(token), Lower(BearerPrefix)) THEN [exit |-> FALSE, token |-> token]
  ELSE [exit |-> FALSE, token |-> BearerPrefix \o token]

----------------------------------------------------------------------------
(* make_api_request (main.py lines 175-223) *)

\* Python values returned by make_api_request: None, or the parsed body
RetNone == [none |-> TRUE]
RetVal(body) == [none |-> FALSE, v |-> body]

\* Python truthiness of that value: None and the empty dict are falsy
Truthy(ret) == ~ret.none /\ DOMAIN ret.v # {}

\* what requests.post / raise_for_status / response.json() can do
FailureKinds ==
  {"http_error", "connection_error", "ssl_error", "timeout", "connect_timeout",
   "read_timeout", "too_many_redirects", "invalid_json", "invalid_json_stdlib"}

\* the exception each failure raises (requests.exceptions); response.json()
\* of an older requests raises the decoder's own json.JSONDecodeError
ExceptionOf(kind) ==
  CASE kind = "http_error" -> "HTTPError"
    [] kind = "connection_error" -> "ConnectionError"
    [] kind = "ssl_error" -> "SSLError"
    [] kind = "timeout" -> "Timeout"
    [] kind = "connect_timeout" -> "ConnectTimeout"
    [] kind = "read_timeout" -> "ReadTimeout"
    [] kind = "too_many_redirects" -> "TooManyRedirects"
    [] kind = "invalid_json" -> "JSONDecodeError"
    [] kind = "invalid_json_stdlib" -> "json.JSONDecodeError"
    [] kind = "interrupt" -> "KeyboardInterrupt"

\* the direct base classes of an exception class: the built-in exceptions,
\* those of json, csv, socket and ssl, and those of requests.exceptions, which
\* go by their bare names as main.py reaches them ("ConnectionError" is the
\* one of requests, "builtins.ConnectionError" the built-in one); IOError and
\* EnvironmentError are other names of OSError; a class not named here
\* derives from Exception
ParentsOf(exc) ==
  CASE exc = "BaseException" -> {}
    [] exc \in {"BaseExceptionGroup", "Exception", "GeneratorExit",
                  "KeyboardInterrupt", "SystemExit"}
         -> {"BaseException"}
    [] exc = "ExceptionGroup" -> {"BaseExceptionGroup", "Exception"}
    [] exc \in {"ArithmeticError", "AssertionError", "AttributeError",
                  "BufferError", "EOFError", "ImportError", "LookupError",
                  "MemoryError", "NameError", "OSError", "ReferenceError",
                  "RuntimeError", "StopAsyncIteration", "StopIteration",
                  "SyntaxError", "SystemError", "TypeError", "ValueError",
                  "Warning", "csv.Error", "urllib3.HTTPError"}
         -> {"Exception"}
    [] exc \in {"FloatingPointError", "OverflowError", "ZeroDivisionError"}
         -> {"ArithmeticError"}
    [] exc = "ModuleNotFoundError" -> {"ImportError"}
    [] exc \in {"IndexError", "KeyError"}
         -> {"LookupError"}
    [] exc = "UnboundLocalError" -> {"NameError"}
    [] exc \in {"BlockingIOError", "ChildProcessError",
                  "builtins.ConnectionError", "FileExistsError",
                  "FileNotFoundError", "InterruptedError",
                  "IsADirectoryError", "NotADirectoryError",
                  "PermissionError", "ProcessLookupError", "TimeoutError",
                  "socket.herror", "socket.gaierror", "ssl.SSLError",
                  "RequestException", "IOError", "EnvironmentError"}
         -> {"OSError"}
    [] exc \in {"BrokenPipeError", "ConnectionAbortedError",
                  "ConnectionRefusedError", "ConnectionResetError"}
         -> {"builtins.ConnectionError"}
    [] exc = "ssl.SSLCertVerificationError" -> {"ssl.SSLError", "ValueError"}
    [] exc \in {"ssl.SSLZeroReturnError", "ssl.SSLWantWriteError",
                  "ssl.SSLWantReadError", "ssl.SSLSyscallError",
                  "ssl.SSLEOFError"}
         -> {"ssl.SSLError"}
    [] exc \in {"NotImplementedError", "RecursionError"}
         -> {"RuntimeError"}
    [] exc = "IndentationError" -> {"SyntaxError"}
    [] exc = "TabError" -> {"IndentationError"}
    [] exc \in {"UnicodeError", "json.JSONDecodeError"}
         -> {"ValueError"}
    [] exc \in {"UnicodeDecodeError", "UnicodeEncodeError",
                  "UnicodeTranslateError"}
         -> {"UnicodeError"}
    [] exc \in {"BytesWarning", "DeprecationWarning", "EncodingWarning",
                  "FutureWarning", "ImportWarning",
                  "PendingDeprecationWarning", "ResourceWarning",
                  "RuntimeWarning", "SyntaxWarning", "UnicodeWarning",
                  "UserWarning"}
         -> {"Warning"}
    [] exc \in {"InvalidJSONError", "HTTPError", "ConnectionError",
                  "Timeout", "URLRequired", "TooManyRedirects",
                  "ChunkedEncodingError", "RetryError",
                  "UnrewindableBodyError"}
         -> {"RequestException"}
    [] exc = "JSONDecodeError" -> {"InvalidJSONError", "json.JSONDecodeError"}
    [] exc \in {"ProxyError", "SSLError"}
         -> {"ConnectionError"}
    [] exc = "ConnectTimeout" -> {"ConnectionError", "Timeout"}
    [] exc = "ReadTimeout" -> {"Timeout"}
    [] exc \in {"MissingSchema", "InvalidSchema", "InvalidURL",
                  "InvalidHeader"}
         -> {"RequestException", "ValueError"}
    [] exc = "InvalidProxyURL" -> {"InvalidURL"}
    [] exc = "ContentDecodingError" -> {"RequestException", "urllib3.HTTPError"}
    [] exc = "StreamConsumedError" -> {"RequestException", "TypeError"}
    [] exc = "RequestsWarning" -> {"Warning"}
    [] exc = "FileModeWarning" -> {"RequestsWarning", "DeprecationWarning"}
    [] exc = "RequestsDependencyWarning" -> {"RequestsWarning"}
    [] OTHER -> {"Exception"}

\* the classes an exception is an instance of, under each of their names
RECURSIVE BasesOf(_)
BasesOf(exc) ==
  LET up == {exc} \cup UNION {BasesOf(base) : base \in ParentsOf(exc)} IN
  IF "OSError" \in up THEN up \cup {"IOError", "EnvironmentError"} ELSE up

\* the except clauses of make_api_request (lines 211 and 218)
ApiHandlers == {"RequestException", "json.JSONDecodeError"}

\* ApiCatches with a handler for HTTP errors only
ApiCatches_HttpOnly(exc) == "HTTPError" \in BasesOf(exc)

ApiCatches(exc) == BasesOf(exc) \cap ApiHandlers # {}

\* make_api_request sending the request a second time after a failure
make_api_request_RetryOnce(cfg, envtok, endpoint_path, payload, outcome) ==
  LET auth == get_auth_token(cfg, envtok)
      request == [url |-> endpoint_path, authorization |-> auth.token,
                  payload |-> payload]
  IN
  IF auth.exit
  THEN [raised |-> "SystemExit", reqs |-> << >>, ret |-> RetNone]
  ELSE IF outcome.kind = "ok"
  THEN [raised |-> "none", reqs |-> <<request>>, ret |-> RetVal(outcome.body)]
  ELSE IF ApiCatches(ExceptionOf(outcome.kind))
  THEN [raised |-> "none", reqs |-> <<request, request>>, ret |-> RetNone]
  ELSE [raised |-> ExceptionOf(outcome.kind), reqs |-> <<request>>, ret |-> RetNone]

\* outcome is what the transport does with the request, if one is sent
make_api_request(cfg, envtok, endpoint_path, payload, outcome) ==
  LET auth == get_auth_token(cfg, envtok)
      request == [url |-> endpoint_path, authorization |-> auth.token,
                  payload |-> payload]
  IN
  IF auth.exit
  THEN [raised |-> "SystemExit", reqs |-> << >>, ret |-> RetNone]
  ELSE IF outcome.kind = "ok"
  THEN [raised |-> "none", reqs |-> <<request>>, ret |-> RetVal(outcome.body)]
  ELSE IF ApiCatches(ExceptionOf(outcome.kind))
  THEN [raised |-> "none", reqs |-> <<request>>, ret |-> RetNone]
  ELSE [raised |-> ExceptionOf(outcome.kind), reqs |-> <<request>>, ret |-> RetNone]

----------------------------------------------------------------------------
(* Upstream data.  A raw entity of a response is [map |-> TRUE, d |-> dict] *)
(* or, when it is not a mapping (a JSON string, number or null),           *)
(* [map |-> FALSE]; the same holds for the value under "attributes".       *)

PyDict(d) == [map |-> TRUE, d |-> d]
NotAMapping == [map |-> FALSE]
EmptyDict == [k \in {} |-> ""]

\* entity.get(k, default): raises AttributeError when entity is not a mapping
RaisesOnGet(e) == ~e.map

\* connection entities the connections search may return
ConnEntityA ==
  PyDict([attributes |-> PyDict([name |-> "conn-a", qualifiedName |-> <<"c", "/", "1">>,
                                 connectorName |-> "databricks", category |-> "lake"]),
          createdBy |-> "alice", updatedBy |-> "bob",
          createTime |-> "1700000000000", updateTime |-> "1700000000001"])
\* its identifier holds a backslash followed by n
ConnEntityB ==
  PyDict([attributes |-> PyDict([name |-> "conn-b", qualifiedName |-> <<"c", "\\", "n">>,
                                 connectorName |-> "tableau"]),
          createdBy |-> "alice"])
\* its identifier holds a double quote
ConnEntityQuote ==
  PyDict([attributes |-> PyDict([name |-> "conn-q", qualifiedName |-> <<"c", "\"", "1">>,
                                 connectorName |-> "databricks"])])
\* its connector is not a key of databases_api_map
ConnEntityUnknown ==
  PyDict([attributes |-> PyDict([name |-> "conn-u", qualifiedName |-> <<"c", "/", "2">>,
                                 connectorName |-> "mysql"])])
\* no attributes and no metadata at all
ConnEntityEmpty == PyDict(EmptyDict)

ConnEntities ==
  {ConnEntityA, ConnEntityB, ConnEntityQuote, ConnEntityUnknown, ConnEntityEmpty,
   NotAMapping}

\* database entities a databases search may return
DbEntity1 ==
  PyDict([typeName |-> "Database",
          attributes |-> PyDict([name |-> "db1", qualifiedName |-> <<"c", "/", "1", "/", "d">>]),
          createdBy |-> "alice", updatedBy |-> "bob",
          createTime |-> "1700000000002", updateTime |-> "1700000000003"])
DbEntity2 ==
  PyDict([typeName |-> "Database", attributes |-> PyDict([name |-> "db2"])])
\* "attributes" is null
DbEntityBadAttrs == PyDict([typeName |-> "Database", attributes |-> NotAMapping])

\* the entities in the responses of a run
DbEntities == {DbEntity1, DbEntityBadAttrs}

\* parsed response bodies: {"entities": [...]}, {} and a body without
\* "entities"
BodiesOver(entities, n) ==
  {[entities |-> es] : es \in SeqsUpTo(entities, n)}
    \cup {EmptyDict, [approximateCount |-> "0"]}

OutcomesOver(entities, n) ==
  {[kind |-> "ok", body |-> b] : b \in BodiesOver(entities, n)}
    \cup {[kind |-> k] : k \in FailureKinds}

ConnOutcomes == OutcomesOver(ConnEntities, MaxConns)

\* the user interrupts the process while requests.post blocks
Interrupted == [kind |-> "interrupt"]

\* a response may list the same entity more than once
DbOutcomes == OutcomesOver(DbEntities, MaxDbs)

----------------------------------------------------------------------------
(* get_connections (main.py lines 226-284) *)

\* the try body of lines 262-276; ok = FALSE when it raises
MapConnection(entity) ==
  IF RaisesOnGet(entity) THEN [ok |-> FALSE]
  ELSE LET attributes == Get(entity.d, "attributes", PyDict(EmptyDict)) IN
       IF RaisesOnGet(attributes) THEN [ok |-> FALSE]
       ELSE [ok |-> TRUE,
             rec |-> [connection_name |-> Get(attributes.d, "name", ""),
                      connection_qualified_name |-> Get(attributes.d, "qualifiedName", << >>),
                      connector_name |-> Get(attributes.d, "connectorName", ""),
                      category |-> Get(attributes.d, "category", ""),
                      updated_by |-> Get(entity.d, "updatedBy", ""),
                      created_by |-> Get(entity.d, "createdBy", ""),
                      create_time |-> Get(entity.d, "createTime", ""),
                      update_time |-> Get(entity.d, "updateTime", "")]]

\* the loop of lines 260-282: entities whose mapping raises are skipped
MapConnections(entities) ==
  LET mapped == [n \in 1..Len(entities) |-> MapConnection(entities[n])]
      kept == SelectSeq(mapped, LAMBDA m : m.ok)
  IN [n \in 1..Len(kept) |-> kept[n].rec]

\* get_connections reading response['entities'], which raises KeyError when
\* the key is absent
get_connections_IndexEntities(cfg, envtok, outcome) ==
  LET r == make_api_request(cfg, envtok, cfg.connections_api.url,
                            cfg.connections_api.payload, outcome) IN
  IF r.raised # "none"
  THEN [raised |-> r.raised, reqs |-> r.reqs, connections |-> << >>]
  ELSE IF ~Truthy(r.ret)
  THEN [raised |-> "none", reqs |-> r.reqs, connections |-> << >>]
  ELSE IF "entities" \notin DOMAIN r.ret.v
  THEN [raised |-> "KeyError", reqs |-> r.reqs, connections |-> << >>]
  ELSE [raised |-> "none", reqs |-> r.reqs,
        connections |-> MapConnections(r.ret.v.entities)]

get_connections(cfg, envtok, outcome) ==
  LET r == make_api_request(cfg, envtok, cfg.connections_api.url,
                            cfg.connections_api.payload, outcome) IN
  IF r.raised # "none"
  THEN [raised |-> r.raised, reqs |-> r.reqs, connections |-> << >>]
  ELSE IF ~Truthy(r.ret)
  THEN [raised |-> "none", reqs |-> r.reqs, connections |-> << >>]
  ELSE [raised |-> "none", reqs |-> r.reqs,
        connections |-> MapConnections(Get(r.ret.v, "entities", << >>))]

----------------------------------------------------------------------------
(* get_databases (main.py lines 287-362) *)

\* MapDatabase reading entity['attributes'], which raises KeyError when the
\* key is absent
MapDatabase_AttrsRequired(entity, connection_qualified_name) ==
  IF RaisesOnGet(entity) THEN [ok |-> FALSE]
  ELSE IF "attributes" \notin DOMAIN entity.d THEN [ok |-> FALSE]
  ELSE LET attributes == entity.d.attributes IN
       IF RaisesOnGet(attributes) THEN [ok |-> FALSE]
       ELSE [ok |-> TRUE,
             rec |-> [connection_qualified_name |-> connection_qualified_name,
                      type_name |-> Get(entity.d, "typeName", ""),
                      qualified_name |-> Get(attributes.d, "qualifiedName", << >>),
                      name |-> Get(attributes.d, "name", ""),
                      created_by |-> Get(entity.d, "createdBy", ""),
                      updated_by |-> Get(entity.d, "updatedBy", ""),
                      create_time |-> Get(entity.d, "createTime", ""),
                      update_time |-> Get(entity.d, "updateTime", "")]]

\* MapDatabase taking the parent from the upstream attributes when they
\* name one
MapDatabase_UpstreamParent(entity, connection_qualified_name) ==
  IF RaisesOnGet(entity) THEN [ok |-> FALSE]
  ELSE LET attributes == Get(entity.d, "attributes", PyDict(EmptyDict)) IN
       IF RaisesOnGet(attributes) THEN [ok |-> FALSE]
       ELSE [ok |-> TRUE,
             rec |-> [connection_qualified_name |->
                        Get(attributes.d, "connectionQualifiedName",
                            connection_qualified_name),
                      type_name |-> Get(entity.d, "typeName", ""),
                      qualified_name |-> Get(attributes.d, "qualifiedName", << >>),
                      name |-> Get(attributes.d, "name", ""),
                      created_by |-> Get(entity.d, "createdBy", ""),
                      updated_by |-> Get(entity.d, "updatedBy", ""),
                      create_time |-> Get(entity.d, "createTime", ""),
                      update_time |-> Get(entity.d, "updateTime", "")]]

\* the try body of lines 343-355
MapDatabase(entity, connection_qualified_name) ==
  IF RaisesOnGet(entity) THEN [ok |-> FALSE]
  ELSE LET attributes == Get(entity.d, "attributes", PyDict(EmptyDict)) IN
       IF RaisesOnGet(attributes) THEN [ok |-> FALSE]
       ELSE [ok |-> TRUE,
             rec |-> [connection_qualified_name |-> connection_qualified_name,
                      type_name |-> Get(entity.d, "typeName", ""),
                      qualified_name |-> Get(attributes.d, "qualifiedName", << >>),
                      name |-> Get(attributes.d, "name", ""),
                      created_by |-> Get(entity.d, "createdBy", ""),
                      updated_by |-> Get(entity.d, "updatedBy", ""),
                      create_time |-> Get(entity.d, "createTime", ""),
                      update_time |-> Get(entity.d, "updateTime", "")]]

\* MapDatabases giving up the whole batch when one entity fails to map
MapDatabases_AllOrNothing(entities, connection_qualified_name) ==
  LET mapped == [n \in 1..Len(entities) |->
                   MapDatabase(entities[n], connection_qualified_name)]
  IN IF \E n \in 1..Len(mapped) : ~mapped[n].ok THEN << >>
     ELSE [n \in 1..Len(mapped) |-> mapped[n].rec]

\* the loop of lines 340-360
MapDatabases(entities, connection_qualified_name) ==
  LET mapped == [n \in 1..Len(entities) |->
                   MapDatabase(entities[n], connection_qualified_name)]
      kept == SelectSeq(mapped, LAMBDA m : m.ok)
  IN [n \in 1..Len(kept) |-> kept[n].rec]

\* lines 310-311: config[config["databases_api_map"][connector_name]]
\* raises KeyError when either lookup misses
ApiKeyKnown(cfg, connector_name) ==
  /\ connector_name \in DOMAIN cfg.databases_api_map
  /\ cfg.databases_api_map[connector_name] \in DOMAIN cfg

\* lines 315-319: serialise the template, replace the placeholder by the raw
\* identifier, parse the text back; ok = FALSE is json.JSONDecodeError
BuildPayload(payload_template, connection_qualified_name) ==
  LET payload_json_str == Dumps(payload_template)
      updated_payload_str ==
        StrReplace(payload_json_str, Placeholder, connection_qualified_name)
  IN Loads(updated_payload_str)

\* BuildPayload for the templates of the configurations above and the
\* identifiers of the connection entities above, computed once
BuiltPayloads ==
  [t \in {TemplateDatabases, TemplateTableau},
   q \in {MapConnection(e).rec.connection_qualified_name :
            e \in ConnEntities \ {NotAMapping}} |-> BuildPayload(t, q)]

\* lines 315-319 for one call: BuildPayload, looked up when it was computed
Templated(payload_template, connection_qualified_name) ==
  IF <<payload_template, connection_qualified_name>> \in DOMAIN BuiltPayloads
  THEN BuiltPayloads[payload_template, connection_qualified_name]
  ELSE BuildPayload(payload_template, connection_qualified_name)

\* DatabasesRequest sending the template itself when the templated text
\* does not parse
DatabasesRequest_SendsTemplate(cfg, connection_qualified_name, connector_name) ==
  IF ~ApiKeyKnown(cfg, connector_name)
  THEN [raised |-> "KeyError", ok |-> FALSE, url |-> "", payload |-> JObj(<< >>)]
  ELSE LET api == cfg[cfg.databases_api_map[connector_name]]
           built == Templated(api.payload, connection_qualified_name)
       IN IF ~Serializable(api.payload)
          THEN [raised |-> "TypeError", ok |-> FALSE, url |-> api.url, payload |-> JObj(<< >>)]
          ELSE IF built.ok
          THEN [raised |-> "none", ok |-> TRUE, url |-> api.url, payload |-> built.v]
          ELSE [raised |-> "none", ok |-> TRUE, url |-> api.url, payload |-> api.payload]

\* lines 309-323, everything get_databases does before it sends a request:
\* raised = "KeyError" when the lookup misses, raised = "TypeError" when
\* json.dumps (line 315) cannot encode the template, which the handler of
\* line 320 (json.JSONDecodeError only) lets through, ok = FALSE when that
\* handler returns []
DatabasesRequest(cfg, connection_qualified_name, connector_name) ==
  IF ~ApiKeyKnown(cfg, connector_name)
  THEN [raised |-> "KeyError", ok |-> FALSE, url |-> "", payload |-> JObj(<< >>)]
  ELSE LET api == cfg[cfg.databases_api_map[connector_name]]
           built == Templated(api.payload, connection_qualified_name)
       IN IF ~Serializable(api.payload)
          THEN [raised |-> "TypeError", ok |-> FALSE, url |-> api.url, payload |-> JObj(<< >>)]
          ELSE IF built.ok
          THEN [raised |-> "none", ok |-> TRUE, url |-> api.url, payload |-> built.v]
          ELSE [raised |-> "none", ok |-> FALSE, url |-> api.url, payload |-> JObj(<< >>)]

\* lines 325-362, given the request built above; line is the return
\* statement that ended the call, 0 when an exception left it
FetchDatabasesWith(cfg, envtok, req, connection_qualified_name, outcome) ==
  IF req.raised # "none"
  THEN [raised |-> req.raised, reqs |-> << >>, line |-> 0, databases |-> << >>]
  ELSE IF ~req.ok
  THEN [raised |-> "none", reqs |-> << >>, line |-> 323, databases |-> << >>]
  ELSE
    LET r == make_api_request(cfg, envtok, req.url, req.payload, outcome) IN
    IF r.raised # "none"
    THEN [raised |-> r.raised, reqs |-> r.reqs, line |-> 0, databases |-> << >>]
    ELSE IF ~Truthy(r.ret)
    THEN [raised |-> "none", reqs |-> r.reqs, line |-> 331, databases |-> << >>]
    ELSE [raised |-> "none", reqs |-> r.reqs, line |-> 362,
          databases |-> MapDatabases(Get(r.ret.v, "entities", << >>),
                                     connection_qualified_name)]

\* get_databases writing the substituted payload back into the configuration
ConfigAfterGetDatabases_InPlace(cfg, connection_qualified_name, connector_name) ==
  IF ~ApiKeyKnown(cfg, connector_name) THEN cfg
  ELSE LET key == cfg.databases_api_map[connector_name]
           built == Templated(cfg[key].payload, connection_qualified_name)
       IN IF Serializable(cfg[key].payload) /\ built.ok
          THEN [cfg EXCEPT ![key].payload = built.v]
          ELSE cfg

\* the configuration after a call of get_databases: lines 310-319 bind local
\* names only, and json.loads (line 319) builds a new object
ConfigAfterGetDatabases(cfg, connection_qualified_name, connector_name) == cfg

get_databases(cfg, envtok, connection_qualified_name, connector_name, outcome) ==
  FetchDatabasesWith(cfg, envtok,
                     DatabasesRequest(cfg, connection_qualified_name, connector_name),
                     connection_qualified_name, outcome)

----------------------------------------------------------------------------
(* The exporters (main.py lines 365-452) *)

\* a file of output/: absent (not written), or the header fields and rows it
\* holds; cut says that the last of them is there only in part
NoFile == [written |-> FALSE, header |-> << >>, rows |-> << >>, cut |-> FALSE]
CsvFile(header, rows) ==
  [written |-> TRUE, header |-> header, rows |-> rows, cut |-> FALSE]

\* the file when writing stops after cells of its header fields and rows
\* were begun: open(path, 'w') has emptied it, the last cell begun may be
\* incomplete
TruncatedFile(header, rows, cells) ==
  [written |-> TRUE,
   header |-> IF cells < Len(header) THEN SubSeq(header, 1, cells) ELSE header,
   rows |-> IF cells <= Len(header) THEN << >>
            ELSE IF cells - Len(header) < Len(rows)
            THEN SubSeq(rows, 1, cells - Len(header))
            ELSE rows,
   cut |-> cells > 0]

\* what writing a file does: it succeeds; open() raises OSError or one of
\* its subclasses and nothing is touched; or a write raises OSError after some
\* cells were begun, none (an empty file is left) or MaxCells of them
IOOutcomes ==
  {[kind |-> "ok"]}
    \cup {[kind |-> "open_error", exc |-> e] :
            e \in {"PermissionError", "FileNotFoundError", "IsADirectoryError",
                   "NotADirectoryError", "OSError"}}
    \cup {[kind |-> "write_error", exc |-> "OSError", cells |-> n] :
            n \in {0, MaxCells}}

\* lines 391-394
ConnectionsFieldnames ==
  <<"connection_name", "connection_qualified_name", "connector_name",
    "category", "created_by", "updated_by", "create_time", "update_time">>

\* lines 436-439
DatabasesFieldnames ==
  <<"type_name", "qualified_name", "name", "created_by", "updated_by",
    "create_time", "update_time", "connection_qualified_name">>

\* line 493
CombinedFieldnames ==
  <<"connector_name", "connection_name", "category", "type_name", "name">>

\* lines 400-403, 445-448 and 528-531: the file after header and rows were
\* to be written to it; file is what was there before
WriteCsv(header, rows, io, file) ==
  IF io.kind = "ok" THEN CsvFile(header, rows)
  ELSE IF io.kind = "open_error" THEN file
  ELSE TruncatedFile(header, rows, io.cells)

\* export_connections_to_csv writing a header-only file for an empty list
export_connections_to_csv_WritesHeader(conns, io, file) ==
  WriteCsv(ConnectionsFieldnames, conns, io, file)

\* the file left behind by export_connections_to_csv(conns): lines 380-382
\* return before anything is opened
export_connections_to_csv(conns, io, file) ==
  IF conns = << >> THEN file
  ELSE WriteCsv(ConnectionsFieldnames, conns, io, file)

\* export_databases_to_csv writing a header-only file for an empty list
export_databases_to_csv_WritesHeader(dbs, io, file) ==
  WriteCsv(DatabasesFieldnames, dbs, io, file)

\* lines 425-427 return before anything is opened
export_databases_to_csv(dbs, io, file) ==
  IF dbs = << >> THEN file
  ELSE WriteCsv(DatabasesFieldnames, dbs, io, file)

\* open() or the writer raises; nothing is opened for an empty list
WriteFails(rows, io) == rows # << >> /\ io.kind # "ok"

\* the except clause of the three exporters (lines 405, 450 and 533)
ExportHandlers == {"IOError"}

\* ExportCatches with no handler around the write
ExportCatches_Nothing(exc) == FALSE

ExportCatches(exc) == BasesOf(exc) \cap ExportHandlers # {}

\* the exception that leaves an exporter, "none" when it returns
ExportRaised(rows, io) ==
  IF WriteFails(rows, io) /\ ~ExportCatches(io.exc) THEN io.exc ELSE "none"

\* the files after one exporter has returned: its file as the exporter left
\* it, and its name among the logged write errors when the write failed
AfterExport(fs, name, rows, io, file) ==
  [fs EXCEPT ![name] = file,
             !.errors = IF WriteFails(rows, io) THEN @ \cup {name} ELSE @]

----------------------------------------------------------------------------
(* create_combined_csv (main.py lines 455-535) *)

\* BuildIndex with the bucket assigned instead of appended to
RECURSIVE BuildIndex_Overwrite(_, _, _)
BuildIndex_Overwrite(dbs, n, index) ==
  IF n > Len(dbs) THEN index
  ELSE LET conn_qualified_name == Get(dbs[n], "connection_qualified_name", << >>) IN
       IF conn_qualified_name \notin DOMAIN index
       THEN BuildIndex_Overwrite(dbs, n + 1, index @@ (conn_qualified_name :> <<dbs[n]>>))
       ELSE BuildIndex_Overwrite(dbs, n + 1,
                                 [index EXCEPT ![conn_qualified_name] = <<dbs[n]>>])

\* BuildIndex with the record inserted at the front of its bucket
RECURSIVE BuildIndex_Prepend(_, _, _)
BuildIndex_Prepend(dbs, n, index) ==
  IF n > Len(dbs) THEN index
  ELSE LET conn_qualified_name == Get(dbs[n], "connection_qualified_name", << >>) IN
       IF conn_qualified_name \notin DOMAIN index
       THEN BuildIndex_Prepend(dbs, n + 1, index @@ (conn_qualified_name :> <<dbs[n]>>))
       ELSE BuildIndex_Prepend(dbs, n + 1,
                               [index EXCEPT ![conn_qualified_name] = <<dbs[n]>> \o @])

\* lines 485-490: one pass over databases building the lookup dictionary
RECURSIVE BuildIndex(_, _, _)
BuildIndex(dbs, n, index) ==
  IF n > Len(dbs) THEN index
  ELSE LET conn_qualified_name == Get(dbs[n], "connection_qualified_name", << >>) IN
       IF conn_qualified_name \notin DOMAIN index
       THEN BuildIndex(dbs, n + 1, index @@ (conn_qualified_name :> <<dbs[n]>>))
       ELSE BuildIndex(dbs, n + 1,
                       [index EXCEPT ![conn_qualified_name] = Append(@, dbs[n])])

EmptyIndex == [k \in {} |-> << >>]

\* lines 505-511 and 515-521
CombinedRow(connection, type_name, name) ==
  [connector_name |-> Get(connection, "connector_name", ""),
   connection_name |-> Get(connection, "connection_name", ""),
   category |-> Get(connection, "category", ""),
   type_name |-> type_name,
   name |-> name]

\* RowsFor as an inner join: no row without a matching database
RowsFor_Inner(connection, matching_databases) ==
  IF matching_databases # << >>
  THEN [n \in 1..Len(matching_databases) |->
          CombinedRow(connection, Get(matching_databases[n], "type_name", ""),
                      Get(matching_databases[n], "name", ""))]
  ELSE << >>

\* RowsFor with the database-less row built from an empty connection
RowsFor_NamelessBlank(connection, matching_databases) ==
  IF matching_databases # << >>
  THEN [n \in 1..Len(matching_databases) |->
          CombinedRow(connection, Get(matching_databases[n], "type_name", ""),
                      Get(matching_databases[n], "name", ""))]
  ELSE <<CombinedRow(EmptyDict, "", "")>>

\* RowsFor with a row for the first matching database only
RowsFor_FirstMatch(connection, matching_databases) ==
  IF matching_databases # << >>
  THEN <<CombinedRow(connection, Get(matching_databases[1], "type_name", ""),
                     Get(matching_databases[1], "name", ""))>>
  ELSE <<CombinedRow(connection, "", "")>>

\* lines 502-522: the rows one connection adds to combined_data
RowsFor(connection, matching_databases) ==
  IF matching_databases # << >>
  THEN [n \in 1..Len(matching_databases) |->
          CombinedRow(connection, Get(matching_databases[n], "type_name", ""),
                      Get(matching_databases[n], "name", ""))]
  ELSE <<CombinedRow(connection, "", "")>>

\* lines 498-500: the lookup for one connection
MatchingDatabases(connection, index) ==
  Get(index, Get(connection, "connection_qualified_name", << >>), << >>)

\* lines 498-522
RECURSIVE JoinFrom(_, _, _)
JoinFrom(conns, index, n) ==
  IF n > Len(conns) THEN << >>
  ELSE RowsFor(conns[n], MatchingDatabases(conns[n], index))
         \o JoinFrom(conns, index, n + 1)

CombinedData(conns, dbs) == JoinFrom(conns, BuildIndex(dbs, 1, EmptyIndex), 1)

\* the file left behind by create_combined_csv(conns, dbs): lines 474-476
\* return before anything is computed, lines 524-535 write the rows
create_combined_csv(conns, dbs, io, file) ==
  IF conns = << >> THEN file
  ELSE WriteCsv(CombinedFieldnames, CombinedData(conns, dbs), io, file)

----------------------------------------------------------------------------
(* The state of one run of the script *)

VARIABLES
  pc,             \* the step main() is at
  config,         \* the loaded configs/config.json (line 41)
  env_token,      \* the value of ATLAN_AUTH_TOKEN
  old_files,      \* the entries of logs/ and output/ from before the run
  connections,    \* main(): connections (line 560)
  idx,            \* main(): 1-based position of the loop of line 570
  all_databases,  \* main(): all_databases (line 569)
  fetched,        \* per connection visited: was get_databases called, the
                  \* return statement that ended the call, the requests it
                  \* sent and what it returned
  requests,       \* the requests handed to requests.post, in order
  api_outcome,    \* make_api_request on its own: what the transport did
  api_result,     \* make_api_request on its own: what the call returned
  files,          \* the three output files of this run
  combined_data,  \* create_combined_csv(): combined_data (line 495)
  exit_code,      \* exit status of the process, Running while it runs
  raised,         \* the exception that ended the run, "none" otherwise
  tenants,        \* orchestrator: the configured tenants
  t_results,      \* orchestrator: one result per tenant processed
  t_summary       \* orchestrator: the cross-tenant summary

vars ==
  <<pc, config, env_token, old_files, connections, idx, all_databases, fetched,
    requests, api_outcome, api_result, files, combined_data, exit_code, raised,
    tenants, t_results, t_summary>>

Running == -1

\* no request has been handed to the transport
NoOutcome == [kind |-> "none"]

\* the orchestrator has not reported yet
NoSummary == [reported |-> FALSE]

\* errors holds the exporters that logged "Failed to write ... CSV file"
NoFiles ==
  [connections |-> NoFile, databases |-> NoFile, combined |-> NoFile, errors |-> {}]

\* the state after the module-level code of main.py has run (lines 31-84);
\* logs/ and output/ hold the entries above, or what an earlier run's cleanup
\* has left of them
Init ==
  /\ pc = "cleanup"
  /\ config \in Configs
  /\ env_token \in RunEnvTokens
  /\ old_files \in {OldEntries, cleanup_old_files(OldEntries)}
  /\ connections = << >>
  /\ idx = 1
  /\ all_databases = << >>
  /\ fetched = << >>
  /\ requests = << >>
  /\ api_outcome = NoOutcome
  /\ api_result = RetNone
  /\ files = NoFiles
  /\ combined_data = << >>
  /\ exit_code = Running
  /\ raised = "none"
  /\ tenants = << >>
  /\ t_results = << >>
  /\ t_summary = NoSummary

\* an exception leaves main(): SystemExit ends the process with its code, a
\* KeyboardInterrupt is caught at line 604 and any other exception at line
\* 607, and both handlers exit 1
Abort(exc) ==
  /\ pc' = "exited"
  /\ exit_code' = 1
  /\ raised' = exc

\* main() step 1 (line 557)
Cleanup ==
  /\ pc = "cleanup"
  /\ old_files' = cleanup_old_files(old_files)
  /\ pc' = "get_connections"
  /\ UNCHANGED <<config, env_token, connections, idx, all_databases, fetched,
                 requests, api_outcome, api_result, files, combined_data,
                 exit_code, raised, tenants, t_results, t_summary>>

\* NoConnectionsFound never taking the exit of line 563
NoConnectionsFound_Never(conns) == FALSE

\* line 561, "if not connections:"
NoConnectionsFound(conns) == conns = << >>

\* main() step 2 (lines 560-563)
GetConnections ==
  /\ pc = "get_connections"
  /\ \E outcome \in ConnOutcomes \cup {Interrupted} :
       LET r == get_connections(config, env_token, outcome) IN
       /\ requests' = requests \o r.reqs
       /\ IF r.raised # "none"
          THEN Abort(r.raised) /\ UNCHANGED connections
          ELSE IF NoConnectionsFound(r.connections)
          THEN Abort("SystemExit") /\ UNCHANGED connections
          ELSE /\ connections' = r.connections
               /\ pc' = "export_connections"
               /\ UNCHANGED <<exit_code, raised>>
  /\ UNCHANGED <<config, env_token, old_files, idx, all_databases, fetched,
                 api_outcome, api_result, files, combined_data, tenants, t_results, t_summary>>

\* main() step 3 (line 566)
ExportConnections ==
  /\ pc = "export_connections"
  /\ \E io \in IOOutcomes :
       IF ExportRaised(connections, io) # "none"
       THEN Abort(ExportRaised(connections, io)) /\ UNCHANGED <<files, idx>>
       ELSE /\ files' = AfterExport(files, "connections", connections, io,
                                    export_connections_to_csv(connections, io,
                                                              files.connections))
            /\ pc' = "fetch_databases"
            /\ idx' = 1
            /\ UNCHANGED <<exit_code, raised>>
  /\ UNCHANGED <<config, env_token, old_files, connections, all_databases,
                 fetched, requests, api_outcome, api_result, combined_data,
                 tenants, t_results, t_summary>>

\* AfterConnection leaving the loop after the first connection
AfterConnection_StopsEarly ==
  /\ idx' = idx + 1
  /\ pc' = "export_databases"

\* where the loop of line 570 goes after the connection at idx
AfterConnection ==
  /\ idx' = idx + 1
  /\ pc' = IF idx = Len(connections) THEN "export_databases" ELSE "fetch_databases"

\* HasQualifiedName taking every connection for one with an identifier
HasQualifiedName_Always(connection) == TRUE

\* line 573, "if connection_qualified_name:": '' (and None) are falsy
HasQualifiedName(connection) == connection.connection_qualified_name # << >>

\* extend putting the new records in front of the collected ones
extend_Prepend(collected, databases) == databases \o collected

\* line 577, all_databases.extend(databases)
extend(collected, databases) == collected \o databases

\* main() step 4, one iteration with a qualified name (lines 573-577)
FetchDatabases ==
  /\ pc = "fetch_databases"
  /\ idx <= Len(connections)
  /\ HasQualifiedName(connections[idx])
  /\ LET connection_qualified_name == connections[idx].connection_qualified_name
         req == DatabasesRequest(config, connection_qualified_name,
                                 connections[idx].connector_name)
     IN
     \E outcome \in DbOutcomes \cup {Interrupted} :
       LET r == FetchDatabasesWith(config, env_token, req,
                                   connection_qualified_name, outcome) IN
       /\ requests' = requests \o r.reqs
       /\ IF r.raised # "none"
          THEN /\ Abort(r.raised)
               /\ fetched' = Append(fetched, [called |-> TRUE, line |-> 0,
                                              reqs |-> r.reqs, result |-> << >>])
               /\ UNCHANGED <<idx, all_databases>>
          ELSE /\ all_databases' = extend(all_databases, r.databases)
               /\ fetched' = Append(fetched, [called |-> TRUE, line |-> r.line,
                                              reqs |-> r.reqs, result |-> r.databases])
               /\ AfterConnection
               /\ UNCHANGED <<exit_code, raised>>
  /\ config' = ConfigAfterGetDatabases(config,
                                       connections[idx].connection_qualified_name,
                                       connections[idx].connector_name)
  /\ UNCHANGED <<env_token, old_files, connections, api_outcome,
                 api_result, files, combined_data, tenants, t_results, t_summary>>

\* main() step 4, one iteration without a qualified name (lines 578-580)
SkipConnection ==
  /\ pc = "fetch_databases"
  /\ idx <= Len(connections)
  /\ ~HasQualifiedName(connections[idx])
  /\ fetched' = Append(fetched, [called |-> FALSE, line |-> 0, reqs |-> << >>,
                                 result |-> << >>])
  /\ AfterConnection
  /\ UNCHANGED <<config, env_token, old_files, connections, all_databases,
                 requests, api_outcome, api_result, files, combined_data,
                 exit_code, raised, tenants, t_results, t_summary>>

\* main() step 5 (line 583)
ExportDatabases ==
  /\ pc = "export_databases"
  /\ \E io \in IOOutcomes :
       IF ExportRaised(all_databases, io) # "none"
       THEN Abort(ExportRaised(all_databases, io)) /\ UNCHANGED files
       ELSE /\ files' = AfterExport(files, "databases", all_databases, io,
                                    export_databases_to_csv(all_databases, io,
                                                            files.databases))
            /\ pc' = "create_combined"
            /\ UNCHANGED <<exit_code, raised>>
  /\ UNCHANGED <<config, env_token, old_files, connections, idx, all_databases,
                 fetched, requests, api_outcome, api_result, combined_data,
                 tenants, t_results, t_summary>>

\* main() step 6, create_combined_csv(connections, all_databases)
\* (lines 455-535): nothing is computed for an empty connection list
CreateCombinedCsv ==
  /\ pc = "create_combined"
  /\ \E io \in IOOutcomes :
       /\ combined_data' = IF connections = << >> THEN combined_data
                           ELSE CombinedData(connections, all_databases)
       /\ IF ExportRaised(connections, io) # "none"
          THEN Abort(ExportRaised(connections, io)) /\ UNCHANGED files
          ELSE /\ files' = AfterExport(files, "combined", connections, io,
                                       create_combined_csv(connections, all_databases,
                                                           io, files.combined))
               /\ pc' = "summary"
               /\ UNCHANGED <<exit_code, raised>>
  /\ UNCHANGED <<config, env_token, old_files, connections, idx, all_databases,
                 fetched, requests, api_outcome, api_result,
                 tenants, t_results, t_summary>>

\* main() step 7 (lines 589-592): main() returns and the process exits 0
Finish ==
  /\ pc = "summary"
  /\ pc' = "done"
  /\ exit_code' = 0
  /\ UNCHANGED <<config, env_token, old_files, connections, idx, all_databases,
                 fetched, requests, api_outcome, api_result, files,
                 combined_data, raised, tenants, t_results, t_summary>>

Next ==
  \/ Cleanup
  \/ GetConnections
  \/ ExportConnections
  \/ FetchDatabases
  \/ SkipConnection
  \/ ExportDatabases
  \/ CreateCombinedCsv
  \/ Finish

Spec == Init /\ [][Next]_vars

TypeOK ==
  /\ pc \in {"cleanup", "get_connections", "export_connections", "fetch_databases",
             "export_databases", "create_combined", "summary", "done", "exited"}
  /\ exit_code \in {Running, 0, 1}
  /\ idx \in 1..(Len(connections) + 1)
  /\ Len(fetched) <= Len(connections)

----------------------------------------------------------------------------
(* create_combined_csv on its own: any connection list, any database list *)

JoinConn1 == MapConnection(ConnEntityA).rec
JoinConn2 ==
  [connection_name |-> "conn-2", connection_qualified_name |-> <<"c", "/", "2">>,
   connector_name |-> "tableau", category |-> "bi"]
\* a second connection record with the qualified name of JoinConn1
JoinConn1Again ==
  [connection_name |-> "conn-a2", connection_qualified_name |-> <<"c", "/", "1">>,
   connector_name |-> "snowflake", category |-> "warehouse"]
\* a record without the qualified-name key
JoinConnNoKey == [connection_name |-> "conn-x", connector_name |-> "tableau"]

JoinConnections == {JoinConn1, JoinConn2, JoinConn1Again, JoinConnNoKey}

JoinDb1 ==
  [connection_qualified_name |-> <<"c", "/", "1">>, type_name |-> "Database",
   name |-> "db1"]
JoinDb2 ==
  [connection_qualified_name |-> <<"c", "/", "1">>, type_name |-> "Database",
   name |-> "db2"]
JoinDb3 ==
  [connection_qualified_name |-> <<"c", "/", "2">>, type_name |-> "Schema",
   name |-> "db3"]
\* a record without the connection key
JoinDbNoKey == [type_name |-> "Database", name |-> "db4"]

JoinDatabases == {JoinDb1, JoinDb2, JoinDb3, JoinDbNoKey}

JoinInit ==
  /\ pc = "create_combined"
  /\ connections \in SeqsUpTo(JoinConnections, MaxJoinConns)
  /\ all_databases \in SeqsUpTo(JoinDatabases, MaxJoinDbs)
  /\ config = CfgStd
  /\ env_token = << >>
  /\ old_files = {}
  /\ idx = 1
  /\ fetched = << >>
  /\ requests = << >>
  /\ api_outcome = NoOutcome
  /\ api_result = RetNone
  /\ files = NoFiles
  /\ combined_data = << >>
  /\ exit_code = Running
  /\ raised = "none"
  /\ tenants = << >>
  /\ t_results = << >>
  /\ t_summary = NoSummary

JoinNext == CreateCombinedCsv

JoinSpec == JoinInit /\ [][JoinNext]_vars

----------------------------------------------------------------------------
(* make_api_request on its own *)

ApiEndpoints == {"/api/getConnections", "/api/getDatabases"}
ApiPayloads == {PayloadConnections, BuildPayload(TemplateDatabases, <<"c", "/", "1">>).v}
ApiOutcomes == ConnOutcomes \cup DbOutcomes

ApiInit ==
  /\ pc = "api_call"
  /\ config \in AuthConfigs
  /\ env_token \in EnvTokens
  /\ old_files = {}
  /\ connections = << >>
  /\ idx = 1
  /\ all_databases = << >>
  /\ fetched = << >>
  /\ requests = << >>
  /\ api_outcome = NoOutcome
  /\ api_result = RetNone
  /\ files = NoFiles
  /\ combined_data = << >>
  /\ exit_code = Running
  /\ raised = "none"
  /\ tenants = << >>
  /\ t_results = << >>
  /\ t_summary = NoSummary

\* one call make_api_request(endpoint_path, payload); an exception that
\* leaves the call is kept in raised
CallApi ==
  /\ pc = "api_call"
  /\ \E endpoint_path \in ApiEndpoints, payload \in ApiPayloads,
        outcome \in ApiOutcomes :
       LET r == make_api_request(config, env_token, endpoint_path, payload, outcome) IN
       /\ requests' = r.reqs
       /\ api_outcome' = IF r.reqs = << >> THEN NoOutcome ELSE outcome
       /\ api_result' = r.ret
       /\ raised' = r.raised
       /\ pc' = IF r.raised = "none" THEN "api_returned" ELSE "api_raised"
  /\ UNCHANGED <<config, env_token, old_files, connections, idx, all_databases,
                 fetched, files, combined_data, exit_code, tenants, t_results,
                 t_summary>>

ApiNext == CallApi

ApiSpec == ApiInit /\ [][ApiNext]_vars

----------------------------------------------------------------------------
(* get_connections and get_databases on their own, called with the module's *)
(* config replaced as the tests replace it                                 *)

\* {"dsl": ["PLACEHOLDER_TO_BE_REPLACED", <an object json cannot encode>]}
TemplateUnserializable ==
  JObj(<<KV(<<"d", "s", "l">>, JArr(<<JStr(Placeholder), JOther>>))>>)

CfgUnserializable ==
  [CfgStd EXCEPT !.databases_api = [url |-> "/api/getDatabases",
                                    payload |-> TemplateUnserializable]]

CallConfigs == {CfgStd, CfgUnserializable}

\* no attributes and no metadata at all
DbEntityEmpty == PyDict(EmptyDict)
\* upstream names another connection as the parent of the database
DbEntityForeign ==
  PyDict([typeName |-> "Database",
          attributes |-> PyDict([name |-> "db3", qualifiedName |-> <<"x", "/", "d">>,
                                 connectionQualifiedName |-> <<"x">>,
                                 connection_qualified_name |-> <<"x">>]),
          connection_qualified_name |-> <<"x">>])

CallDbEntities ==
  DbEntities \cup {DbEntity2, DbEntityEmpty, DbEntityForeign, NotAMapping}

CallDbOutcomes == OutcomesOver(CallDbEntities, MaxDbs)

\* the arguments get_databases is called with
CallIdentifiers == {<<"c", "/", "1">>, <<"c", "\\", "n">>, <<"c", "\"", "1">>}
CallConnectors == {"databricks", "tableau", "mysql"}

CallInit ==
  /\ pc = "call"
  /\ config \in CallConfigs
  /\ env_token = << >>
  /\ old_files = {}
  /\ connections = << >>
  /\ idx = 1
  /\ all_databases = << >>
  /\ fetched = << >>
  /\ requests = << >>
  /\ api_outcome = NoOutcome
  /\ api_result = RetNone
  /\ files = NoFiles
  /\ combined_data = << >>
  /\ exit_code = Running
  /\ raised = "none"
  /\ tenants = << >>
  /\ t_results = << >>
  /\ t_summary = NoSummary

\* one call get_connections(); connections holds what it returned
CallGetConnections ==
  /\ pc = "call"
  /\ \E outcome \in ConnOutcomes :
       LET r == get_connections(config, env_token, outcome) IN
       /\ connections' = r.connections
       /\ requests' = r.reqs
       /\ api_outcome' = IF r.reqs = << >> THEN NoOutcome ELSE outcome
       /\ raised' = r.raised
       /\ pc' = IF r.raised = "none" THEN "connections_returned"
                                     ELSE "connections_raised"
  /\ UNCHANGED <<config, env_token, old_files, idx, all_databases, fetched,
                 api_result, files, combined_data, exit_code, tenants,
                 t_results, t_summary>>

\* one call get_databases(connection_qualified_name, connector_name);
\* connections holds the connection the call is made for, all_databases what
\* the call returned
CallGetDatabases ==
  /\ pc = "call"
  /\ \E connection_qualified_name \in CallIdentifiers,
        connector_name \in CallConnectors :
       LET req == DatabasesRequest(config, connection_qualified_name, connector_name) IN
       \E outcome \in CallDbOutcomes :
         LET r == FetchDatabasesWith(config, env_token, req,
                                     connection_qualified_name, outcome) IN
         /\ connections' = <<[connection_qualified_name |-> connection_qualified_name,
                              connector_name |-> connector_name]>>
         /\ all_databases' = r.databases
         /\ fetched' = <<[called |-> TRUE, line |-> r.line, reqs |-> r.reqs,
                          result |-> r.databases]>>
         /\ requests' = r.reqs
         /\ api_outcome' = IF r.reqs = << >> THEN NoOutcome ELSE outcome
         /\ raised' = r.raised
         /\ config' = ConfigAfterGetDatabases(config, connection_qualified_name,
                                              connector_name)
         /\ pc' = IF r.raised = "none" THEN "databases_returned"
                                       ELSE "databases_raised"
  /\ UNCHANGED <<env_token, old_files, idx, api_result, files,
                 combined_data, exit_code, tenants, t_results, t_summary>>

CallNext ==
  \/ CallGetConnections
  \/ CallGetDatabases

CallSpec == CallInit /\ [][CallNext]_vars

----------------------------------------------------------------------------
(* get_databases called several times in a row on the same configuration;  *)
(* connections lists the arguments of the calls and fetched their results  *)

SeqInit ==
  /\ pc = "calls"
  /\ config = CfgStd
  /\ env_token = << >>
  /\ old_files = {}
  /\ connections = << >>
  /\ idx = 1
  /\ all_databases = << >>
  /\ fetched = << >>
  /\ requests = << >>
  /\ api_outcome = NoOutcome
  /\ api_result = RetNone
  /\ files = NoFiles
  /\ combined_data = << >>
  /\ exit_code = Running
  /\ raised = "none"
  /\ tenants = << >>
  /\ t_results = << >>
  /\ t_summary = NoSummary

\* the next call get_databases(connection_qualified_name, connector_name);
\* raised is the exception that left it, if any
NextGetDatabases ==
  /\ pc = "calls"
  /\ Len(fetched) < MaxCalls
  /\ \E connection_qualified_name \in CallIdentifiers,
        connector_name \in CallConnectors :
       LET req == DatabasesRequest(config, connection_qualified_name, connector_name) IN
       \E outcome \in {[kind |-> "ok", body |-> [entities |-> <<DbEntity1>>]],
                      [kind |-> "ok", body |-> EmptyDict],
                      [kind |-> "timeout"]} :
         LET r == FetchDatabasesWith(config, env_token, req,
                                     connection_qualified_name, outcome) IN
         /\ connections' = Append(connections,
                                  [connection_qualified_name |-> connection_qualified_name,
                                   connector_name |-> connector_name])
         /\ all_databases' = r.databases
         /\ fetched' = Append(fetched, [called |-> TRUE, line |-> r.line,
                                        reqs |-> r.reqs, result |-> r.databases])
         /\ requests' = requests \o r.reqs
         /\ raised' = r.raised
         /\ config' = ConfigAfterGetDatabases(config, connection_qualified_name,
                                              connector_name)
  /\ UNCHANGED <<pc, env_token, old_files, idx, api_outcome, api_result, files,
                 combined_data, exit_code, tenants, t_results, t_summary>>

SeqNext == NextGetDatabases

SeqSpec == SeqInit /\ [][SeqNext]_vars

----------------------------------------------------------------------------
(* The three exporters on their own, called with any two lists, with no    *)
(* file there yet or with the files of an earlier call under the same names *)


PriorFiles ==
  [connections |-> CsvFile(ConnectionsFieldnames, <<JoinConn1>>),
   databases |-> CsvFile(DatabasesFieldnames, <<JoinDb1>>),
   combined |-> CsvFile(CombinedFieldnames, <<CombinedRow(JoinConn1, "", "")>>),
   errors |-> {}]

ExportInit ==
  /\ pc = "export_call"
  /\ connections \in SeqsUpTo({JoinConn1, JoinConn2}, MaxJoinConns)
  /\ all_databases \in SeqsUpTo({JoinDb1, JoinDb3}, MaxJoinDbs)
  /\ files \in {NoFiles, PriorFiles}
  /\ config = CfgStd
  /\ env_token = << >>
  /\ old_files = {}
  /\ idx = 1
  /\ fetched = << >>
  /\ requests = << >>
  /\ api_outcome = NoOutcome
  /\ api_result = RetNone
  /\ combined_data = << >>
  /\ exit_code = Running
  /\ raised = "none"
  /\ tenants = << >>
  /\ t_results = << >>
  /\ t_summary = NoSummary

\* one call export_connections_to_csv(connections)
CallExportConnections ==
  /\ pc = "export_call"
  /\ \E io \in IOOutcomes :
       /\ raised' = ExportRaised(connections, io)
       /\ files' = IF raised' # "none" THEN files
                   ELSE AfterExport(files, "connections", connections, io,
                                    export_connections_to_csv(connections, io,
                                                              files.connections))
  /\ pc' = "exported_connections"
  /\ UNCHANGED <<config, env_token, old_files, connections, idx, all_databases,
                 fetched, requests, api_outcome, api_result, combined_data,
                 exit_code, tenants, t_results, t_summary>>

\* one call export_databases_to_csv(all_databases)
CallExportDatabases ==
  /\ pc = "export_call"
  /\ \E io \in IOOutcomes :
       /\ raised' = ExportRaised(all_databases, io)
       /\ files' = IF raised' # "none" THEN files
                   ELSE AfterExport(files, "databases", all_databases, io,
                                    export_databases_to_csv(all_databases, io,
                                                            files.databases))
  /\ pc' = "exported_databases"
  /\ UNCHANGED <<config, env_token, old_files, connections, idx, all_databases,
                 fetched, requests, api_outcome, api_result, combined_data,
                 exit_code, tenants, t_results, t_summary>>

\* one call create_combined_csv(connections, all_databases)
CallCreateCombinedCsv ==
  /\ pc = "export_call"
  /\ \E io \in IOOutcomes :
       /\ raised' = ExportRaised(connections, io)
       /\ combined_data' = IF connections = << >> THEN combined_data
                           ELSE CombinedData(connections, all_databases)
       /\ files' = IF raised' # "none" THEN files
                   ELSE AfterExport(files, "combined", connections, io,
                                    create_combined_csv(connections, all_databases,
                                                        io, files.combined))
  /\ pc' = "exported_combined"
  /\ UNCHANGED <<config, env_token, old_files, connections, idx, all_databases,
                 fetched, requests, api_outcome, api_result, exit_code, tenants,
                 t_results, t_summary>>

ExportNext ==
  \/ CallExportConnections
  \/ CallExportDatabases
  \/ CallCreateCombinedCsv

ExportSpec == ExportInit /\ [][ExportNext]_vars

----------------------------------------------------------------------------
(* The tenant orchestrator, run(tenants) -> Summary (spec.md section 4.5). *)
(* A tenant is its credential and what its upstream does when fetched: the *)
(* fetch raises, or it yields so many connections and databases.           *)

TenantUpstreams ==
  {[kind |-> "raise"],
   [kind |-> "ok", connections |-> 0, databases |-> 0],
   [kind |-> "ok", connections |-> 3, databases |-> 8],
   [kind |-> "ok", connections |-> 5, databases |-> 12]}

TenantConfigs ==
  {[credential |-> c, upstream |-> u] :
     c \in {<< >>, <<"t", "o", "k">>}, u \in TenantUpstreams}

\* TenantResult recording a failed tenant as one without data
TenantResult_ErrorAsNoData(n, tenant) ==
  IF tenant.credential = << >> THEN << >>
  ELSE IF tenant.upstream.kind = "raise" \/ tenant.upstream.connections = 0
  THEN <<[tenant |-> n, status |-> "no_data", connections |-> 0, databases |-> 0]>>
  ELSE <<[tenant |-> n, status |-> "success",
          connections |-> tenant.upstream.connections,
          databases |-> tenant.upstream.databases]>>

\* what processing tenant number n adds to the results: nothing for a tenant
\* without credential, else one result with its status and counts
TenantResult(n, tenant) ==
  IF tenant.credential = << >> THEN << >>
  ELSE IF tenant.upstream.kind = "raise"
  THEN <<[tenant |-> n, status |-> "error", connections |-> 0, databases |-> 0]>>
  ELSE IF tenant.upstream.connections = 0
  THEN <<[tenant |-> n, status |-> "no_data", connections |-> 0, databases |-> 0]>>
  ELSE <<[tenant |-> n, status |-> "success",
          connections |-> tenant.upstream.connections,
          databases |-> tenant.upstream.databases]>>

RECURSIVE SumField(_, _, _)
SumField(results, field, n) ==
  IF n = 0 THEN 0
  ELSE SumField(results, field, n - 1)
         + (IF results[n].status = "success" THEN results[n][field] ELSE 0)

CountStatus(results, status) ==
  Cardinality({n \in 1..Len(results) : results[n].status = status})

\* tenants by status, and the sums over the success tenants only
Summarize(results) ==
  [reported |-> TRUE,
   success |-> CountStatus(results, "success"),
   no_data |-> CountStatus(results, "no_data"),
   error |-> CountStatus(results, "error"),
   connections |-> SumField(results, "connections", Len(results)),
   databases |-> SumField(results, "databases", Len(results))]

TenantInit ==
  /\ pc = "tenants"
  /\ tenants \in SeqsUpTo(TenantConfigs, MaxTenants)
  /\ idx = 1
  /\ t_results = << >>
  /\ t_summary = NoSummary
  /\ config = CfgStd
  /\ env_token = << >>
  /\ old_files = {}
  /\ connections = << >>
  /\ all_databases = << >>
  /\ fetched = << >>
  /\ requests = << >>
  /\ api_outcome = NoOutcome
  /\ api_result = RetNone
  /\ files = NoFiles
  /\ combined_data = << >>
  /\ exit_code = Running
  /\ raised = "none"

\* one tenant is processed; a failure is caught at the tenant boundary
ProcessTenant ==
  /\ pc = "tenants"
  /\ idx <= Len(tenants)
  /\ t_results' = t_results \o TenantResult(idx, tenants[idx])
  /\ idx' = idx + 1
  /\ UNCHANGED <<pc, config, env_token, old_files, connections, all_databases,
                 fetched, requests, api_outcome, api_result, files,
                 combined_data, exit_code, raised, tenants, t_summary>>

\* after the last tenant the summary is computed and reported
ReportSummary ==
  /\ pc = "tenants"
  /\ idx > Len(tenants)
  /\ t_summary' = Summarize(t_results)
  /\ pc' = "reported"
  /\ UNCHANGED <<config, env_token, old_files, connections, idx, all_databases,
                 fetched, requests, api_outcome, api_result, files,
                 combined_data, exit_code, raised, tenants, t_results>>

TenantNext == ProcessTenant \/ ReportSummary

TenantSpec == TenantInit /\ [][TenantNext]_vars

\* the tenants whose processing is expected to succeed, fail, find nothing
Credentialed(n) == tenants[n].credential # << >>
Raises(n) == Credentialed(n) /\ tenants[n].upstream.kind = "raise"
Succeeds(n) ==
  Credentialed(n) /\ tenants[n].upstream.kind = "ok" /\ tenants[n].upstream.connections > 0

RECURSIVE SumUpstream(_, _)
SumUpstream(field, n) ==
  IF n = 0 THEN 0
  ELSE SumUpstream(field, n - 1) + (IF Succeeds(n) THEN tenants[n].upstream[field] ELSE 0)

\* C2 (tenant isolation): a failure while processing one tenant is recorded
\* as status error for that tenant and the next tenants are still processed;
\* the totals of the summary are the sums over the success tenants only.
\* With three tenants of which the second raises, the summary has the first
\* and third as success and the second as error.
C2_TenantIsolation ==
  pc = "reported" =>
    /\ Len(t_results) = Cardinality({n \in 1..Len(tenants) : Credentialed(n)})
    /\ \A k \in 1..Len(t_results) :
         /\ t_results[k].status = "error" <=> Raises(t_results[k].tenant)
         /\ t_results[k].status = "success" <=> Succeeds(t_results[k].tenant)
         /\ \A j \in 1..(k - 1) : t_results[j].tenant < t_results[k].tenant
    /\ t_summary.error = Cardinality({n \in 1..Len(tenants) : Raises(n)})
    /\ t_summary.success = Cardinality({n \in 1..Len(tenants) : Succeeds(n)})
    /\ t_summary.connections = SumUpstream("connections", Len(tenants))
    /\ t_summary.databases = SumUpstream("databases", Len(tenants))
    /\ (Len(tenants) = 3 /\ Succeeds(1) /\ Raises(2) /\ Succeeds(3)) =>
         /\ Len(t_results) = 3
         /\ t_results[1].status = "success"
         /\ t_results[2].status = "error"
         /\ t_results[3].status = "success"

\* three tenants, the second raised: 5 + 3 connections and 12 + 8 databases
C2_Witness ==
  /\ pc = "reported"
  /\ Len(tenants) = 3
  /\ Succeeds(1) /\ Raises(2) /\ Succeeds(3)
  /\ t_results[2].status = "error"
  /\ t_summary.success = 2 /\ t_summary.error = 1
  /\ t_summary.connections = 8
  /\ t_summary.databases = 20

----------------------------------------------------------------------------
(* Properties of the join *)

JoinKey(rec) == Get(rec, "connection_qualified_name", << >>)

\* the database records whose key equals the key of connection c, in the
\* order they have in dbs
MatchesOf(c, dbs) == SelectSeq(dbs, LAMBDA db : JoinKey(db) = JoinKey(c))

Max(a, b) == IF a >= b THEN a ELSE b

\* rows expected of the first n connections: sum of max(1, matches)
RECURSIVE ExpectedRows(_, _, _)
ExpectedRows(conns, dbs, n) ==
  IF n = 0 THEN 0
  ELSE ExpectedRows(conns, dbs, n - 1) + Max(1, Len(MatchesOf(conns[n], dbs)))

\* create_combined_csv has built its rows
Joined == pc \in {"summary", "done"}

\* C3 (join totality): the number of combined rows produced by
\* create_combined_csv equals the sum, over the connections, of
\* max(1, number of database records with the connection's qualified name).
C3_JoinTotality ==
  Joined => Len(combined_data) = ExpectedRows(connections, all_databases, Len(connections))

\* a connection with two databases and a connection with none were joined
C3_Witness ==
  /\ Joined
  /\ \E m, n \in 1..Len(connections) :
       /\ Len(MatchesOf(connections[m], all_databases)) = 2
       /\ Len(MatchesOf(connections[n], all_databases)) = 0
  /\ Len(combined_data) = 3

\* the position before the first row of connection n
Offset(n) == ExpectedRows(connections, all_databases, n - 1)

\* the number of rows of connection n
GroupSize(n) == Max(1, Len(MatchesOf(connections[n], all_databases)))

\* C4 (join left-bias): every connection contributes at least one combined
\* row carrying its own connector_name and connection_name, whatever the
\* database list holds; a connection without a matching database contributes
\* exactly one row, whose type_name and name are the empty string.
C4_JoinLeftBias ==
  Joined =>
    \A n \in 1..Len(connections) :
      /\ Offset(n) + GroupSize(n) <= Len(combined_data)
      /\ \A k \in 1..GroupSize(n) :
           /\ combined_data[Offset(n) + k].connector_name
                = Get(connections[n], "connector_name", "")
           /\ combined_data[Offset(n) + k].connection_name
                = Get(connections[n], "connection_name", "")
      /\ MatchesOf(connections[n], all_databases) = << >> =>
           /\ combined_data[Offset(n) + 1].type_name = ""
           /\ combined_data[Offset(n) + 1].name = ""
           /\ Cardinality({k \in 1..Len(combined_data) :
                             combined_data[k] = CombinedRow(connections[n], "", "")})
                = Cardinality({m \in 1..Len(connections) :
                                 /\ MatchesOf(connections[m], all_databases) = << >>
                                 /\ CombinedRow(connections[m], "", "")
                                      = CombinedRow(connections[n], "", "")})

\* the join ran on a non-empty connection list and an empty database list
C4_Witness ==
  /\ Joined
  /\ Len(connections) = 2
  /\ connections[1] # connections[2]
  /\ all_databases = << >>
  /\ Len(combined_data) = 2
  /\ combined_data[2].connection_name = connections[2].connection_name
  /\ combined_data[2].name = ""

\* C5 as stated: there are at least as many combined rows as connections,
\* with equality if and only if no connection has any matching database.
C5_Original ==
  Joined =>
    /\ Len(combined_data) >= Len(connections)
    /\ Len(combined_data) = Len(connections)
         <=> \A n \in 1..Len(connections) :
               MatchesOf(connections[n], all_databases) = << >>

\* C5 (amended): there are at least as many combined rows as connections,
\* with equality if and only if no connection has more than one matching
\* database.
C5_RowCountBound ==
  Joined =>
    /\ Len(combined_data) >= Len(connections)
    /\ Len(combined_data) = Len(connections)
         <=> \A n \in 1..Len(connections) :
               Len(MatchesOf(connections[n], all_databases)) <= 1

\* two connections with exactly one database each gave two rows
C5_Witness ==
  /\ Joined
  /\ Len(connections) = 2
  /\ \A n \in 1..2 : Len(MatchesOf(connections[n], all_databases)) = 1
  /\ Len(combined_data) = 2
  /\ combined_data[1].name # "" /\ combined_data[2].name # ""

\* C6 (join order): the combined rows are grouped by connection in the
\* order of the connection list, and within the group of one connection the
\* rows follow the order its database records have in the database list.
C6_JoinOrder ==
  Joined =>
    \A n \in 1..Len(connections) :
      LET matches == MatchesOf(connections[n], all_databases) IN
      \A k \in 1..Len(matches) :
        /\ Offset(n) + k <= Len(combined_data)
        /\ combined_data[Offset(n) + k]
             = CombinedRow(connections[n], Get(matches[k], "type_name", ""),
                           Get(matches[k], "name", ""))

\* connections c/1, c/2 with databases db1, db2 under c/1: rows db1, db2,
\* then one blank row for c/2
C6_Witness ==
  /\ Joined
  /\ connections = <<JoinConn1, JoinConn2>>
  /\ all_databases = <<JoinDb1, JoinDb2>>
  /\ Len(combined_data) = 3
  /\ combined_data[1].name = "db1"
  /\ combined_data[2].name = "db2"
  /\ combined_data[3].name = "" /\ combined_data[3].type_name = ""
  /\ combined_data[3].connection_name = "conn-2"

----------------------------------------------------------------------------
(* Properties of make_api_request *)

ApiCalled == pc \in {"api_returned", "api_raised"}

\* C8: make_api_request lets no transport failure escape as an exception:
\* for a non-2xx status, a network error, a timeout or an unparseable body
\* it returns None, and on success it returns the parsed response.
C8_FailuresReturnNone ==
  ApiCalled =>
    /\ api_outcome.kind \in FailureKinds => raised = "none" /\ api_result = RetNone
    /\ api_outcome.kind = "ok" => raised = "none" /\ api_result = RetVal(api_outcome.body)

\* a request was sent, the read timed out (ReadTimeout), and the call
\* returned None
C8_Witness ==
  /\ pc = "api_returned"
  /\ Len(requests) = 1
  /\ api_outcome.kind = "read_timeout"
  /\ api_result = RetNone

----------------------------------------------------------------------------
(* Properties of the database-fetch loop of main() *)

\* the template get_databases picks for a connector (lines 310-311)
TemplateOf(cfg, connector_name) == cfg[cfg.databases_api_map[connector_name]].payload

\* the identifiers and templates the runs can meet, and whether the
\* templated text of each pair parses
RunIdentifiers ==
  {MapConnection(e).rec.connection_qualified_name : e \in ConnEntities \ {NotAMapping}}
RunTemplates == {TemplateDatabases, TemplateTableau}
TemplatedTextParses ==
  [t \in RunTemplates, q \in RunIdentifiers |-> BuildPayload(t, q).ok]

\* the fetch for connection n ended in one of the failures of the claim:
\* templating failure (line 323), transport failure or falsy body (line 331),
\* or an empty result (line 362 with no record)
FetchFailed(n) ==
  /\ fetched[n].called
  /\ fetched[n].line \in {323, 331, 362}
  /\ fetched[n].result = << >>

LoopOver == pc \in {"export_databases", "create_combined", "summary", "done"}

\* C1 as stated: a failed database fetch for one connection yields an empty
\* list for that connection only; whatever the connection list and whichever
\* fetches fail, the run is not aborted, get_databases is invoked for every
\* later connection with a non-empty qualified name and its databases are
\* collected.
C1_FetchFailureIsolated ==
  \A m \in 1..Len(fetched) :
    FetchFailed(m) =>
      /\ pc # "exited"
      /\ \A n \in (m + 1)..Len(fetched) :
           connections[n].connection_qualified_name # << >> =>
             /\ fetched[n].called
             /\ fetched[n].line # 0
      /\ LoopOver => Len(fetched) = Len(connections)

\* C7 as stated: a connection whose connector_name is not a key of the
\* connector-to-template mapping still has its databases fetched (with the
\* default template); the unknown name never fails the fetch or the run.
C7_UnknownConnectorFallsBack ==
  \A n \in 1..Len(fetched) :
    (fetched[n].called
       /\ connections[n].connector_name \notin DOMAIN config.databases_api_map) =>
      /\ fetched[n].line # 0
      /\ raised # "KeyError"
      /\ exit_code # 1

\* v with every occurrence of the placeholder inside a string leaf replaced
\* by the identifier
RECURSIVE Substituted(_, _)
Substituted(v, identifier) ==
  CASE v.t = "str" -> JStr(StrReplace(v.s, Placeholder, identifier))
    [] v.t = "int" -> v
    [] v.t = "arr" -> JArr([n \in 1..Len(v.items) |-> Substituted(v.items[n], identifier)])
    [] v.t = "obj" -> JObj([n \in 1..Len(v.kv) |->
                              KV(v.kv[n].k, Substituted(v.kv[n].v, identifier))])

PlaceholderCount(template) == CountFrom(Dumps(template), Placeholder, 1)

\* C9 as stated: for a template holding the placeholder exactly once and a
\* non-empty identifier, the payload get_databases sends is the template
\* with the placeholder leaf replaced by exactly the identifier, and it
\* holds the placeholder no more.
C9_TemplatingCorrect ==
  \A n \in 1..Len(fetched) :
    (fetched[n].reqs # << >>
       /\ PlaceholderCount(TemplateOf(config, connections[n].connector_name)) = 1
       /\ connections[n].connection_qualified_name # << >>) =>
      /\ fetched[n].reqs[1].payload
           = Substituted(TemplateOf(config, connections[n].connector_name),
                         connections[n].connection_qualified_name)
      /\ ~Contains(Dumps(fetched[n].reqs[1].payload), Placeholder)

\* the templated text for connection n does not parse
TemplateErrorAt(n) ==
  /\ fetched[n].called
  /\ ApiKeyKnown(config, connections[n].connector_name)
  /\ ~TemplatedTextParses[TemplateOf(config, connections[n].connector_name),
                          connections[n].connection_qualified_name]

\* C10: when the text obtained by substituting the identifier into the
\* serialised template does not parse, get_databases sends no request and
\* returns an empty list, and the loop of main() goes on to the next
\* connection.
C10_TemplateErrorSkipsConnection ==
  \A n \in 1..Len(fetched) :
    TemplateErrorAt(n) =>
      /\ fetched[n].line = 323
      /\ fetched[n].reqs = << >>
      /\ fetched[n].result = << >>
      /\ idx > n

\* the first connection's identifier broke the templated text, nothing was
\* sent for it, and the second connection's databases were fetched
C10_Witness ==
  /\ Len(fetched) = 2
  /\ TemplateErrorAt(1)
  /\ fetched[1].reqs = << >>
  /\ Len(requests) = 2
  /\ fetched[2].result # << >>
  /\ all_databases = fetched[2].result

----------------------------------------------------------------------------
(* Properties of get_connections and get_databases called on their own *)

ConnectionsCalled == pc \in {"connections_returned", "connections_raised"}
DatabasesCalled == pc \in {"databases_returned", "databases_raised"}

\* the template get_databases looks up for the call, when the lookup succeeds
CallTemplateKnown == ApiKeyKnown(config, connections[1].connector_name)
CallTemplate == TemplateOf(config, connections[1].connector_name)

\* C11: when serialising the payload template raises TypeError, the call
\* get_databases(q, connector) returns the empty list and raises nothing.
C11_SerializeErrorReturnsEmpty ==
  (DatabasesCalled /\ CallTemplateKnown /\ ~Serializable(CallTemplate))
    => (pc = "databases_returned" /\ raised = "none" /\ all_databases = << >>)

----------------------------------------------------------------------------
(* Properties of a run of main() *)

\* the connections request has been answered with at least one record
Fetching == pc \notin {"cleanup", "get_connections"} /\ connections # << >>

RECURSIVE RequestsOfFetches(_)
RequestsOfFetches(n) ==
  IF n = 0 THEN 0 ELSE Len(fetched[n].reqs) + RequestsOfFetches(n - 1)

NoIdentifier(n) == connections[n].connection_qualified_name = << >>

\* the run has written the whole of this file
Exported(name) == files[name].written /\ name \notin files.errors

\* C12: a connection record without a qualified name gets no database
\* request (every request of the run is the connections request or belongs
\* to the fetch of a connection that has an identifier), it is among the
\* rows handed to the connections export, and the join gives it exactly one
\* row, with blank type_name and name.
C12_EmptyIdentifierSkipped ==
  Fetching =>
    /\ Len(requests) = 1 + RequestsOfFetches(Len(fetched))
    /\ \A n \in 1..Len(connections) : NoIdentifier(n) =>
         /\ n <= Len(fetched) => (~fetched[n].called /\ fetched[n].reqs = << >>
                                   /\ fetched[n].result = << >>)
         /\ Exported("connections") => files.connections.rows[n] = connections[n]
         /\ Joined =>
              /\ GroupSize(n) = 1
              /\ combined_data[Offset(n) + 1] = CombinedRow(connections[n], "", "")
              /\ Exported("combined") =>
                   files.combined.rows[Offset(n) + 1] = combined_data[Offset(n) + 1]

\* a finished run of two connections: the first has no identifier and got
\* one blank row in the written combined file, the second has databases
C12_Witness ==
  /\ pc = "done"
  /\ Len(connections) = 2
  /\ NoIdentifier(1)
  /\ ~fetched[1].called
  /\ fetched[2].result # << >>
  /\ Exported("connections")
  /\ Exported("combined")
  /\ files.combined.rows[1].name = ""
  /\ Len(combined_data) = 1 + Len(fetched[2].result)

\* C13: when get_connections yields no record the process exits with
\* status 1, the only request sent is the connections request, and none of
\* the three files is written.
C13_ZeroConnectionsFatal ==
  (pc \notin {"cleanup", "get_connections"} /\ connections = << >>) =>
    /\ pc = "exited"
    /\ exit_code = 1
    /\ Len(requests) <= 1
    /\ \A n \in DOMAIN requests : requests[n].url = config.connections_api.url
    /\ fetched = << >>
    /\ all_databases = << >>
    /\ files = NoFiles

\* the connections request was sent with a credential, brought no record,
\* and the run ended with status 1
C13_Witness ==
  /\ pc = "exited"
  /\ connections = << >>
  /\ Len(requests) = 1
  /\ raised = "SystemExit"
  /\ exit_code = 1
  /\ files = NoFiles

----------------------------------------------------------------------------
(* Properties of get_connections and get_databases: what they return *)

\* the transport failed, or answered without an "entities" field, or with
\* an empty entities list
NothingToMap ==
  \/ api_outcome.kind \in FailureKinds
  \/ /\ api_outcome.kind = "ok"
     /\ \/ "entities" \notin DOMAIN api_outcome.body
        \/ api_outcome.body.entities = << >>

\* C14: get_connections returns the empty list and raises nothing when the
\* request fails, the response has no entities field, or the entities list
\* is empty.
C14_GetConnectionsEmpty ==
  (ConnectionsCalled /\ requests # << >> /\ NothingToMap) =>
    (pc = "connections_returned" /\ raised = "none" /\ connections = << >>)

\* the response was a non-empty body without an entities field and the call
\* returned []
C14_Witness ==
  /\ pc = "connections_returned"
  /\ api_outcome.kind = "ok"
  /\ DOMAIN api_outcome.body = {"approximateCount"}
  /\ connections = << >>

\* the call got a response with an entities list
Answered ==
  /\ requests # << >>
  /\ api_outcome.kind = "ok"
  /\ "entities" \in DOMAIN api_outcome.body

\* the entity is a mapping and its "attributes", when present, is one too
Mappable(e) == e.map /\ ("attributes" \in DOMAIN e.d => e.d.attributes.map)

AttributesOf(e) ==
  IF "attributes" \in DOMAIN e.d THEN e.d.attributes.d ELSE EmptyDict

\* how many of the first n entities are mappable
Position(es, n) == Cardinality({m \in 1..n : Mappable(es[m])})

\* upstream key and record field, for the metadata of the entity itself
MetadataFields ==
  {<<"createdBy", "created_by">>, <<"updatedBy", "updated_by">>,
   <<"createTime", "create_time">>, <<"updateTime", "update_time">>}

\* upstream key and record field, for what is read from "attributes"
ConnectionAttributeFields ==
  {<<"name", "connection_name">>, <<"connectorName", "connector_name">>,
   <<"category", "category">>}

\* every field of rec whose upstream key is absent from the dictionary d
\* holds the empty string
Defaulted(rec, d, fields) == \A kf \in fields : kf[1] \notin DOMAIN d => rec[kf[2]] = ""

\* the entity has neither "attributes" nor any metadata key
Bare(e) ==
  /\ e.map
  /\ DOMAIN e.d \cap {"attributes", "typeName", "createdBy", "updatedBy",
                      "createTime", "updateTime"} = {}

\* C15: mapping never fails for want of a field: every field whose upstream
\* key is absent is the empty string in the record, for connections and for
\* databases, so an entity without attributes and metadata gives a record
\* whose upstream fields are all empty; the call raises nothing.
C15_MappingDefaults ==
  /\ (ConnectionsCalled /\ Answered) =>
       /\ raised = "none"
       /\ \A n \in DOMAIN api_outcome.body.entities :
            LET e == api_outcome.body.entities[n]
                p == Position(api_outcome.body.entities, n)
            IN Mappable(e) =>
                 /\ p <= Len(connections)
                 /\ Defaulted(connections[p], e.d, MetadataFields)
                 /\ Defaulted(connections[p], AttributesOf(e), ConnectionAttributeFields)
                 /\ "qualifiedName" \notin DOMAIN AttributesOf(e)
                      => connections[p].connection_qualified_name = << >>
  /\ (DatabasesCalled /\ Answered) =>
       /\ raised = "none"
       /\ \A n \in DOMAIN api_outcome.body.entities :
            LET e == api_outcome.body.entities[n]
                p == Position(api_outcome.body.entities, n)
            IN Mappable(e) =>
                 /\ p <= Len(all_databases)
                 /\ Defaulted(all_databases[p], e.d,
                              MetadataFields \cup {<<"typeName", "type_name">>})
                 /\ Defaulted(all_databases[p], AttributesOf(e), {<<"name", "name">>})
                 /\ "qualifiedName" \notin DOMAIN AttributesOf(e)
                      => all_databases[p].qualified_name = << >>

\* get_databases mapped one entity without attributes and metadata to a
\* record whose upstream fields are all empty
C15_Witness ==
  /\ pc = "databases_returned"
  /\ Answered
  /\ Len(api_outcome.body.entities) = 1
  /\ Bare(api_outcome.body.entities[1])
  /\ Len(all_databases) = 1
  /\ all_databases[1].type_name = ""
  /\ all_databases[1].name = ""
  /\ all_databases[1].qualified_name = << >>
  /\ all_databases[1].created_by = ""
  /\ all_databases[1].update_time = ""

\* the records of the mappable entities among es[n..], in order
RECURSIVE ConnectionRecordsFrom(_, _)
ConnectionRecordsFrom(es, n) ==
  IF n > Len(es) THEN << >>
  ELSE (IF Mappable(es[n]) THEN <<MapConnection(es[n]).rec>> ELSE << >>)
         \o ConnectionRecordsFrom(es, n + 1)

RECURSIVE DatabaseRecordsFrom(_, _, _)
DatabaseRecordsFrom(es, q, n) ==
  IF n > Len(es) THEN << >>
  ELSE (IF Mappable(es[n]) THEN <<MapDatabase(es[n], q).rec>> ELSE << >>)
         \o DatabaseRecordsFrom(es, q, n + 1)

\* C16: an entity whose mapping raises is skipped alone: the result is the
\* in-order list of the records of exactly the entities that map.
C16_PartialBatch ==
  /\ (ConnectionsCalled /\ Answered) =>
       connections = ConnectionRecordsFrom(api_outcome.body.entities, 1)
  /\ (DatabasesCalled /\ Answered) =>
       all_databases =
         DatabaseRecordsFrom(api_outcome.body.entities,
                             connections[1].connection_qualified_name, 1)

\* a batch of two whose first entity is not a mapping: the call returned the
\* record of the second alone
C16_Witness ==
  /\ pc = "databases_returned"
  /\ Answered
  /\ Len(api_outcome.body.entities) = 2
  /\ ~Mappable(api_outcome.body.entities[1])
  /\ Mappable(api_outcome.body.entities[2])
  /\ Len(all_databases) = 1
  /\ all_databases[1].name = "db1"

\* C17: every record get_databases(q, connector) returns carries q as its
\* connection_qualified_name, whatever the upstream entity holds.
C17_StampedWithConnection ==
  DatabasesCalled =>
    \A n \in DOMAIN all_databases :
      all_databases[n].connection_qualified_name =
        connections[1].connection_qualified_name

\* the upstream entity named another parent and the record still carries
\* the identifier of the call
C17_Witness ==
  /\ pc = "databases_returned"
  /\ Answered
  /\ \E n \in DOMAIN api_outcome.body.entities :
       /\ api_outcome.body.entities[n] = DbEntityForeign
       /\ Position(api_outcome.body.entities, n) <= Len(all_databases)
       /\ LET rec == all_databases[Position(api_outcome.body.entities, n)] IN
          /\ rec.qualified_name = <<"x", "/", "d">>
          /\ rec.connection_qualified_name = connections[1].connection_qualified_name
          /\ rec.connection_qualified_name # <<"x">>

----------------------------------------------------------------------------
(* Properties of the files a run of main() writes *)

\* C18: the header of the connections file is connection_name,
\* connection_qualified_name, connector_name, category, created_by,
\* updated_by, create_time, update_time; of the databases file
\* connection_qualified_name, type_name, qualified_name, name, created_by,
\* updated_by, create_time, update_time; of the combined file
\* connector_name, connection_name, category, type_name, name.
C18_ColumnOrder ==
  /\ Exported("connections") =>
       files.connections.header =
         <<"connection_name", "connection_qualified_name", "connector_name",
           "category", "created_by", "updated_by", "create_time", "update_time">>
  /\ Exported("databases") =>
       files.databases.header =
         <<"connection_qualified_name", "type_name", "qualified_name", "name",
           "created_by", "updated_by", "create_time", "update_time">>
  /\ Exported("combined") =>
       files.combined.header =
         <<"connector_name", "connection_name", "category", "type_name", "name">>

\* neither ATLAN_AUTH_TOKEN nor the configuration holds a token
NoCredential == env_token = << >> /\ Get(config, "auth_token", << >>) = << >>

\* C19: without a credential the run ends with status 1, and no step of it
\* deletes an old file, sends a request or writes an output file.
C19_MissingCredentialFatalAtStartup ==
  /\ [](NoCredential /\ pc \in {"done", "exited"} => exit_code = 1)
  /\ [][NoCredential => /\ old_files' = old_files
                        /\ requests' = requests
                        /\ files' = files]_vars

----------------------------------------------------------------------------
(* Properties of get_auth_token, read off the Authorization header *)

\* the token the call has to use: the environment's when set, else the
\* configuration's
ResolvedToken == IF env_token # << >> THEN env_token ELSE Get(config, "auth_token", << >>)

\* the first seven characters are "bearer " in any letter case
HasBearerPrefix(t) ==
  /\ Len(t) >= 7
  /\ Lower(SubSeq(t, 1, 7)) = <<"b", "e", "a", "r", "e", "r", " ">>

\* C20: the credential sent is the environment token when one is set and
\* the configuration token otherwise, unchanged when it already starts with
\* the Bearer prefix in any letter case and with "Bearer " put in front
\* otherwise; formatting the credential again leaves it unchanged.
C20_CredentialResolution ==
  (ApiCalled /\ ResolvedToken # << >>) =>
    /\ requests # << >>
    /\ LET credential == requests[1].authorization IN
       /\ HasBearerPrefix(ResolvedToken) => credential = ResolvedToken
       /\ ~HasBearerPrefix(ResolvedToken) =>
            credential = <<"B", "e", "a", "r", "e", "r", " ">> \o ResolvedToken
       /\ ~get_auth_token(config, credential).exit
       /\ get_auth_token(config, credential).token = credential

\* the environment held "bearer x" while the configuration held a token
\* too: the header is the environment token as it stands
C20_Witness ==
  /\ ApiCalled
  /\ env_token = <<"b", "e", "a", "r", "e", "r", " ", "x">>
  /\ Get(config, "auth_token", << >>) # << >>
  /\ requests # << >>
  /\ requests[1].authorization = env_token

----------------------------------------------------------------------------
(* Properties of the fetch loop of main() *)

\* the results of the first n fetches, one after the other
RECURSIVE ResultsOfFetches(_)
ResultsOfFetches(n) ==
  IF n = 0 THEN << >> ELSE ResultsOfFetches(n - 1) \o fetched[n].result

\* the requests of the first n fetches, one after the other
RECURSIVE RequestListOfFetches(_)
RequestListOfFetches(n) ==
  IF n = 0 THEN << >> ELSE RequestListOfFetches(n - 1) \o fetched[n].reqs

\* C21: the fetches are made one at a time in the order of the connection
\* list: the n-th fetch is the one for the n-th connection, the loop stands
\* right after the last finished fetch, the database requests were sent in
\* that order, and all_databases is the concatenation of the per-connection
\* results in that order.
C21_SequentialOrder ==
  Fetching =>
    /\ Len(fetched) <= Len(connections)
    /\ pc = "fetch_databases" => idx = Len(fetched) + 1
    /\ \A n \in 1..Len(fetched) :
         /\ fetched[n].called <=> connections[n].connection_qualified_name # << >>
         /\ \A m \in DOMAIN fetched[n].result :
              fetched[n].result[m].connection_qualified_name =
                connections[n].connection_qualified_name
    /\ SubSeq(requests, 2, Len(requests)) = RequestListOfFetches(Len(fetched))
    /\ all_databases = ResultsOfFetches(Len(fetched))

\* two connections with different identifiers both gave databases, and the
\* collected list holds the first connection's records before the second's
C21_Witness ==
  /\ pc = "export_databases"
  /\ Len(fetched) = 2
  /\ fetched[1].result # << >>
  /\ fetched[2].result # << >>
  /\ connections[1].connection_qualified_name # connections[2].connection_qualified_name
  /\ all_databases = fetched[1].result \o fetched[2].result
  /\ Len(requests) = 3

\* how many of the requests sent went to the connections endpoint
ConnectionsRequests ==
  Cardinality({n \in DOMAIN requests : requests[n].url = config.connections_api.url})

\* C22 as stated: every finished run has sent exactly one connections
\* request and at most one database request per connection record.
C22_Original ==
  pc \in {"done", "exited"} =>
    /\ ConnectionsRequests = 1
    /\ \A n \in 1..Len(fetched) : Len(fetched[n].reqs) <= 1

\* C22 as amended: at most one connections request is ever sent, exactly
\* one once get_connections has run with a credential and none without a
\* credential; at most one database request is sent per connection record;
\* a fetch that ended at the failure return sent its single request and gave
\* no records.
C22_NoRetries ==
  /\ ConnectionsRequests <= 1
  /\ pc \notin {"cleanup", "get_connections"} =>
       ConnectionsRequests = (IF NoCredential THEN 0 ELSE 1)
  /\ Len(requests) = ConnectionsRequests + RequestsOfFetches(Len(fetched))
  /\ \A n \in 1..Len(fetched) :
       /\ Len(fetched[n].reqs) <= 1
       /\ fetched[n].line = 331 =>
            (Len(fetched[n].reqs) = 1 /\ fetched[n].result = << >>)

\* the first connection's request brought nothing, it was sent once, and
\* the run went on to fetch the second connection's databases
C22_Witness ==
  /\ pc = "done"
  /\ Len(fetched) = 2
  /\ fetched[1].line = 331
  /\ Len(fetched[1].reqs) = 1
  /\ fetched[2].result # << >>
  /\ Len(requests) = 3

----------------------------------------------------------------------------
(* Properties of the category column *)

\* the static table of the combined-file test (test_atlan_extractor.py
\* line 741): databricks is a lake, any other connector has no category
StaticCategory(connector_name) == IF connector_name = "databricks" THEN "lake" ELSE ""

\* C23: the category of every combined row is the static table's label for
\* the row's connector_name, and empty for a connector the table lacks.
C23_CategoryFromLookup ==
  Joined =>
    \A n \in DOMAIN combined_data :
      combined_data[n].category = StaticCategory(combined_data[n].connector_name)

----------------------------------------------------------------------------
(* Properties of the order of the steps of main() *)

\* the request get_databases builds for the n-th connection
RequestFor(n) ==
  DatabasesRequest(config, connections[n].connection_qualified_name,
                   connections[n].connector_name)

\* C24: old files are cleaned up first; the connections request comes next;
\* the connections file is written from the fetched list before any
\* database request; get_databases is called once for each connection that
\* has a qualified name, with that connection's qualified name and
\* connector name; the databases file and the combined file are produced
\* only after the last fetch.
C24_WorkflowOrder ==
  /\ pc = "cleanup" => (requests = << >> /\ connections = << >> /\ files = NoFiles)
  /\ pc # "cleanup" => \A e \in old_files : ~(Globbed(e) /\ e.old /\ e.removable)
  /\ pc \in {"get_connections", "export_connections"} =>
       (fetched = << >> /\ Len(requests) <= 1 /\ files = NoFiles)
  /\ pc = "export_connections" => (connections # << >> /\ Len(requests) = 1)
  /\ Exported("connections") => files.connections.rows = connections
  /\ \A n \in 1..Len(fetched) :
       /\ fetched[n].called <=> connections[n].connection_qualified_name # << >>
       /\ fetched[n].reqs # << >> =>
            /\ Len(fetched[n].reqs) = 1
            /\ fetched[n].reqs[1].url = RequestFor(n).url
            /\ fetched[n].reqs[1].payload = RequestFor(n).payload
  /\ pc \in {"export_databases", "create_combined", "summary", "done"} =>
       Len(fetched) = Len(connections)
  /\ files.databases.written => pc \in {"create_combined", "summary", "done"}
  /\ Exported("databases") => files.databases.rows = all_databases
  /\ (files.combined.written \/ combined_data # << >>) => pc \in {"summary", "done"}

\* a finished run of two connections with identifiers: three requests were
\* sent, both fetches were made, and the three files were written
C24_Witness ==
  /\ pc = "done"
  /\ Len(connections) = 2
  /\ Len(fetched) = 2
  /\ fetched[1].called /\ fetched[2].called
  /\ Len(requests) = 3
  /\ requests[2].payload = RequestFor(1).payload
  /\ requests[3].payload = RequestFor(2).payload
  /\ Exported("connections")
  /\ Exported("databases")
  /\ Exported("combined")

----------------------------------------------------------------------------
(* Properties of the exporters called on their own *)

\* C25: a call of export_connections_to_csv or export_databases_to_csv with
\* an empty list, and a call of create_combined_csv with an empty connection
\* list whatever the database list holds, raises nothing and leaves every
\* file as it was: none is created, none is overwritten.
C25_EmptyExportNoOp ==
  [][/\ (pc' = "exported_connections" /\ connections = << >>) =>
          (files' = files /\ raised' = "none")
     /\ (pc' = "exported_databases" /\ all_databases = << >>) =>
          (files' = files /\ raised' = "none")
     /\ (pc' = "exported_combined" /\ connections = << >>) =>
          (files' = files /\ raised' = "none" /\ combined_data' = << >>)]_vars

\* create_combined_csv was called with no connection and three database
\* records while an earlier combined file was there: the file is untouched
C25_Witness ==
  /\ pc = "exported_combined"
  /\ connections = << >>
  /\ Len(all_databases) = 3
  /\ files = PriorFiles
  /\ raised = "none"

----------------------------------------------------------------------------
(* Interrupts *)

InterruptedInConnections ==
  /\ raised = "KeyboardInterrupt"
  /\ Len(requests) = 1
  /\ connections = << >>

\* C26: when the user interrupts the run while the connections are being
\* fetched, the script ends with exit status 0 and has sent no request after
\* the interrupted one.
C26_InterruptExitsZero ==
  InterruptedInConnections => (pc = "exited" /\ exit_code = 0)

----------------------------------------------------------------------------
(* The payload templates across the calls of get_databases *)

\* the template configs/config.json gives a connector
PristineTemplate(connector_name) ==
  IF connector_name = "databricks" THEN TemplateDatabases ELSE TemplateTableau

\* the n-th connection was fetched and its request was sent
Sent(n) == n \in DOMAIN fetched /\ fetched[n].reqs # << >>

\* C27: whatever calls of get_databases were made, the configured templates
\* are still the ones that were loaded and still hold the placeholder, and
\* the payload sent for a connection is the loaded template with that
\* connection's own identifier substituted.
C27_TemplateUnchanged ==
  /\ config.databases_api.payload = TemplateDatabases
  /\ config.tableau_api.payload = TemplateTableau
  /\ PlaceholderCount(config.databases_api.payload) = 1
  /\ PlaceholderCount(config.tableau_api.payload) = 1
  /\ \A n \in DOMAIN fetched :
       Sent(n) =>
         fetched[n].reqs[1].payload =
           Templated(PristineTemplate(connections[n].connector_name),
                     connections[n].connection_qualified_name).v

\* two connections of the same connector with different identifiers were
\* fetched one after the other and both requests were sent
C27_Witness ==
  /\ Sent(1) /\ Sent(2)
  /\ connections[1].connector_name = connections[2].connector_name
  /\ connections[1].connection_qualified_name
       # connections[2].connection_qualified_name
  /\ fetched[1].reqs[1].payload # fetched[2].reqs[1].payload

----------------------------------------------------------------------------
(* The collected database records in the combined output of a run *)

\* the connections of the run that no collected record belongs to; each has
\* one combined row, with blank database fields
Childless ==
  {n \in DOMAIN connections : MatchesOf(connections[n], all_databases) = << >>}

\* the combined rows that were built from a collected database record
MatchedRows == Len(combined_data) - Cardinality(Childless)

\* two connection records with collected databases carry one qualified name
SharedParent ==
  \E n, m \in DOMAIN connections :
    /\ n # m
    /\ JoinKey(connections[n]) = JoinKey(connections[m])
    /\ MatchesOf(connections[n], all_databases) # << >>

\* C28 as stated: in a completed run the number of combined rows with a
\* matching database equals the number of collected database records, also
\* when several connection records carry the same qualified name.
C28_Original ==
  pc = "done" => MatchedRows = Len(all_databases)

\* C28 (amended): in a completed run every collected database record has a
\* combined row for each connection record that carries its connection
\* qualified name: the rows with a matching database are at least as many as
\* the collected records, and exactly as many if and only if no two
\* connection records with collected databases share a qualified name.
C28_CollectedRecordsJoined ==
  pc = "done" =>
    /\ MatchedRows >= Len(all_databases)
    /\ MatchedRows = Len(all_databases) <=> ~SharedParent
    /\ \A k \in DOMAIN all_databases :
         \E n \in DOMAIN connections, r \in DOMAIN combined_data :
           /\ JoinKey(connections[n]) = JoinKey(all_databases[k])
           /\ combined_data[r] =
                CombinedRow(connections[n], all_databases[k].type_name,
                            all_databases[k].name)

\* a completed run whose two connections have different qualified names and
\* three collected records between them, each joined once
C28_Witness ==
  /\ pc = "done"
  /\ Len(connections) = 2
  /\ ~SharedParent
  /\ Childless = {}
  /\ Len(all_databases) = 3
  /\ MatchedRows = 3

----------------------------------------------------------------------------
(* A run in which no database is found *)

\* every connection of a non-empty list has been through the loop, and every
\* call of get_databases returned, with an empty list
AllFetchesEmpty ==
  /\ connections # << >>
  /\ Len(fetched) = Len(connections)
  /\ \A n \in DOMAIN fetched :
       /\ fetched[n].result = << >>
       /\ fetched[n].called => fetched[n].line \in {323, 331, 362}

\* the row of a connection without databases
BlankRow(connection) == CombinedRow(connection, "", "")

\* C29: when at least one connection was fetched and every database fetch
\* returned an empty result, after a failure or after a response without
\* entities, the run does not end with a failure exit; once it is done it has
\* exit status 0, the connections file holds the connections, no databases
\* file was written or attempted, and the combined output is one row per
\* connection, in order, with blank type_name and name (a file whose write
\* itself failed is the case of C30).
C29_NoDatabasesRunCompletes ==
  AllFetchesEmpty =>
    /\ exit_code # 1
    /\ pc # "exited"
    /\ ~files.databases.written
    /\ "databases" \notin files.errors
    /\ pc = "done" =>
         /\ exit_code = 0
         /\ all_databases = << >>
         /\ "connections" \notin files.errors =>
              files.connections = CsvFile(ConnectionsFieldnames, connections)
         /\ combined_data = [n \in 1..Len(connections) |-> BlankRow(connections[n])]
         /\ "combined" \notin files.errors =>
              files.combined = CsvFile(CombinedFieldnames, combined_data)

\* a completed run with two connections, one whose request failed and one
\* whose response held no entity: two files written, two blank rows
C29_Witness ==
  /\ pc = "done"
  /\ AllFetchesEmpty
  /\ Len(connections) = 2
  /\ fetched[1].line = 331 /\ fetched[2].line = 362
  /\ files.errors = {}
  /\ Exported("connections")
  /\ ~files.databases.written
  /\ Exported("combined")
  /\ Len(files.combined.rows) = 2
  /\ \A r \in 1..2 : files.combined.rows[r].type_name = ""
                       /\ files.combined.rows[r].name = ""

----------------------------------------------------------------------------
(* Write failures in the exporters *)

\* the exporter of the step at pc failed to write in this step
WriteFailedIn(step, name) ==
  /\ pc = step
  /\ name \in files'.errors
  /\ name \notin files.errors

\* C30: an IOError (OSError or a subclass of it, under either name) raised
\* while an exporter opens or writes its file is caught and
\* logged in that exporter, which returns normally: no exception leaves it,
\* the process does not exit, the other files are untouched, and the run
\* goes on to its next step, after a failed connections export to the database
\* fetches, after a failed databases export to the combined file, after a
\* failed combined file to the completion summary.
C30_WriteFailureContained ==
  [][/\ WriteFailedIn("export_connections", "connections") =>
          /\ pc' = "fetch_databases"
          /\ raised' = "none" /\ exit_code' = Running
          /\ files'.databases = files.databases /\ files'.combined = files.combined
     /\ WriteFailedIn("export_databases", "databases") =>
          /\ pc' = "create_combined"
          /\ raised' = "none" /\ exit_code' = Running
          /\ files'.connections = files.connections /\ files'.combined = files.combined
     /\ WriteFailedIn("create_combined", "combined") =>
          /\ pc' = "summary"
          /\ raised' = "none" /\ exit_code' = Running
          /\ files'.connections = files.connections /\ files'.databases = files.databases
     /\ "IOError" \notin BasesOf(raised')]_vars

\* a run whose connections export failed went on to fetch databases, wrote
\* the databases file and the combined file and ended with status 0
C30_Witness ==
  /\ pc = "done"
  /\ exit_code = 0
  /\ files.errors = {"connections"}
  /\ files.connections = TruncatedFile(ConnectionsFieldnames, connections, MaxCells)
  /\ \E n \in DOMAIN fetched : fetched[n].called /\ fetched[n].reqs # << >>
  /\ all_databases # << >>
  /\ files.databases = CsvFile(DatabasesFieldnames, all_databases)
  /\ files.combined = CsvFile(CombinedFieldnames, combined_data)

====
